---- MODULE Spec2Model ----
(***************************************************************************)
(* DAPOL+ proof of liabilities: sparse Merkle sum tree (NDM-SMT), its      *)
(* multi-threaded and single-threaded builders, path siblings, inclusion   *)
(* proofs and the x-coordinate generator.                                  *)
(*                                                                         *)
(* Idealisations.  Blake3 is collision free: a digest is the bracketed     *)
(* byte stream that was hashed.  A Pedersen commitment g1^v * g2^r is the  *)
(* pair of exponents (v, r) modulo the group order (no discrete-log        *)
(* relation between g1 and g2 is known).  u64 is scaled down to U64Bits    *)
(* bits and the group order with it, so that overflow is reachable.        *)
(***************************************************************************)
EXTENDS Integers, Sequences, FiniteSets, TLC

VARIABLES
  height,            \* tree height given to the builder
  store_depth,       \* store depth given to the builder
  max_thread_count,  \* MaxThreadCount given to the builder
  input_leaf_nodes,  \* Vec<InputLeafNode>, in the caller's order
  overflow_checks,   \* build profile: TRUE = u64 overflow panics, FALSE = wraps
  phase,             \* position of the calling code
  build_error,       \* TreeBuildError returned by the builder, or "none"
  stacks,            \* thread id -> call stack of build_node frames
  handles,           \* thread id -> result of a finished spawned thread
  thread_count,      \* the Arc<Mutex<u8>> counter of RecursionParams
  map,               \* the shared DashMap store (set of nodes, one per coordinate)
  root,              \* root node of the built tree (sequence of length <= 1)
  siblings_out,      \* result of the last path-siblings build
  entities,          \* Vec<Entity> given to NdmSmt::new
  entity_mapping,    \* entity index -> x-coord
  proof,             \* the inclusion proof in hand (sequence of length <= 1)
  outcome,           \* result of the last facade call
  gen,               \* state of the RandomXCoordGenerator
  hasher             \* two Hasher instances: the inputs given and the bytes fed to blake3

vars == <<height, store_depth, max_thread_count, input_leaf_nodes, overflow_checks,
          phase, build_error, stacks, handles, thread_count, map, root, siblings_out,
          entities, entity_mapping, proof, outcome, gen, hasher>>

----------------------------------------------------------------------------
(* Bounds of the model *)

MaxHeight == 4
MaxLeaves == 3
MaxThreads == 3
U64Bits == 4

(* Program constants *)

MIN_HEIGHT == 2
MAX_HEIGHT == 64
MIN_STORE_DEPTH == 1
DEFAULT_STORE_DEPTH_RATIO == 2

U64Modulus == 2 ^ U64Bits
GroupOrder == 2 ^ (U64Bits + 2) - 3

----------------------------------------------------------------------------
(* Hasher and key derivation *)

OPEN == 0 - 1
CLOSE == 0 - 2
DELIMITER == 0 - 3
LEAF_TAG == 0 - 4
PAD_TAG == 0 - 5
MASTER_SECRET == 0 - 6
SALT_B == 0 - 7
SALT_S == 0 - 8

Blake3(stream) == <<OPEN>> \o stream \o <<CLOSE>>

HasherUpdate(stream, input) == stream \o input \o <<DELIMITER>>

generate_key(salt, ikm, info) == Blake3(salt \o ikm \o info)

RECURSIVE ScalarFold(_, _)
ScalarFold(bytes, acc) ==
  IF bytes = <<>> THEN acc
  ELSE ScalarFold(Tail(bytes), (acc * 3 + Head(bytes) + 9) % GroupOrder)

ScalarFromBytesModOrder(bytes) == ScalarFold(bytes, 0)

ScalarFromU64(v) == v % GroupOrder

PedersenCommit(v, r) == [v |-> v % GroupOrder, r |-> r % GroupOrder]

CommitmentAdd(a, b) == [v |-> (a.v + b.v) % GroupOrder, r |-> (a.r + b.r) % GroupOrder]

CompressedBytes(c) == <<c.v, c.r>>

----------------------------------------------------------------------------
(* Coordinates *)

Coord(y, x) == [y |-> y, x |-> x]

max_bottom_layer_nodes(h) == 2 ^ (h - 1)

CoordBytes(c) == <<c.y, c.x>>

node_orientation(node) == IF node.coord.x % 2 = 0 THEN "Left" ELSE "Right"

is_left_sibling_of(self, other) ==
  /\ node_orientation(self) = "Left"
  /\ self.coord.y = other.coord.y
  /\ self.coord.x + 1 = other.coord.x

is_right_sibling_of(self, other) ==
  /\ node_orientation(self) = "Right"
  /\ self.coord.x > 0
  /\ self.coord.y = other.coord.y
  /\ self.coord.x - 1 = other.coord.x

sibling_coord(c) == IF c.x % 2 = 0 THEN Coord(c.y, c.x + 1) ELSE Coord(c.y, c.x - 1)

parent_coord(c) == Coord(c.y + 1, c.x \div 2)

subtree_x_coord_bounds(c) == <<c.x * (2 ^ c.y), (c.x + 1) * (2 ^ c.y) - 1>>

----------------------------------------------------------------------------
(* Node contents *)

new_leaf(liability, blinding_factor, entity_id, entity_salt) ==
  [liability |-> liability,
   blinding_factor |-> ScalarFromBytesModOrder(blinding_factor),
   commitment |-> PedersenCommit(ScalarFromU64(liability),
                                 ScalarFromBytesModOrder(blinding_factor)),
   hash |-> Blake3(HasherUpdate(HasherUpdate(HasherUpdate(<<>>, <<LEAF_TAG>>),
                                             <<entity_id>>), entity_salt))]

new_pad(blinding_factor, coord, salt) ==
  [liability |-> 0,
   blinding_factor |-> ScalarFromBytesModOrder(blinding_factor),
   commitment |-> PedersenCommit(ScalarFromU64(0),
                                 ScalarFromBytesModOrder(blinding_factor)),
   hash |-> Blake3(HasherUpdate(HasherUpdate(HasherUpdate(<<>>, <<PAD_TAG>>),
                                             CoordBytes(coord)), salt))]

new_padding_node_content(coord) ==
  LET pad_secret == generate_key(<<>>, <<MASTER_SECRET>>, CoordBytes(coord))
  IN new_pad(generate_key(<<SALT_B>>, pad_secret, <<>>), coord,
             generate_key(<<SALT_S>>, pad_secret, <<>>))

LeafContent(entity_id, liability, x_coord) ==
  LET entity_secret == generate_key(<<>>, <<MASTER_SECRET>>, <<x_coord>>)
  IN new_leaf(liability, generate_key(<<SALT_B>>, entity_secret, <<>>), entity_id,
              generate_key(<<SALT_S>>, entity_secret, <<>>))

MergeHash(lc, lh, rc, rh) ==
  Blake3(HasherUpdate(HasherUpdate(HasherUpdate(HasherUpdate(<<>>,
         CompressedBytes(lc)), CompressedBytes(rc)), lh), rh))

MergeOverflows(lch, rch) == lch.liability + rch.liability >= U64Modulus

FullMerge(lch, rch) ==
  [liability |-> (lch.liability + rch.liability) % U64Modulus,
   blinding_factor |-> (lch.blinding_factor + rch.blinding_factor) % GroupOrder,
   commitment |-> CommitmentAdd(lch.commitment, rch.commitment),
   hash |-> MergeHash(lch.commitment, lch.hash, rch.commitment, rch.hash)]

HiddenMerge(l, r) ==
  [commitment |-> CommitmentAdd(l.commitment, r.commitment),
   hash |-> MergeHash(l.commitment, l.hash, r.commitment, r.hash)]

HiddenFromFull(c) == [commitment |-> c.commitment, hash |-> c.hash]

Node(coord, content) == [coord |-> coord, content |-> content]

into_node(leaf) == Node(Coord(0, leaf.x_coord), leaf.content)

new_sibling_padding_node(node) ==
  Node(sibling_coord(node.coord), new_padding_node_content(sibling_coord(node.coord)))

----------------------------------------------------------------------------
(* The shared store: one node per coordinate *)

MapInsert(m, node) == {n \in m : n.coord # node.coord} \cup {node}

MapInsertAll(m, nodes) == {n \in m : \A k \in nodes : k.coord # n.coord} \cup nodes

get_node(m, coord) ==
  IF \E n \in m : n.coord = coord
  THEN <<CHOOSE n \in m : n.coord = coord>>
  ELSE <<>>

get_leaf_node(m, x) == get_node(m, Coord(0, x))

----------------------------------------------------------------------------
(* Builder validation: BinaryTreeBuilder::height, ::store_depth, ::leaf_nodes *)

RECURSIVE InsertByX(_, _)
InsertByX(sorted, leaf) ==
  IF sorted = <<>> THEN <<leaf>>
  ELSE IF leaf.x_coord < Head(sorted).x_coord THEN <<leaf>> \o sorted
       ELSE <<Head(sorted)>> \o InsertByX(Tail(sorted), leaf)

SortByX_Unsorted(leaves) == leaves

RECURSIVE SortByX(_)
SortByX(leaves) ==
  IF leaves = <<>> THEN <<>>
  ELSE InsertByX(SortByX(SubSeq(leaves, 1, Len(leaves) - 1)), leaves[Len(leaves)])

\* A duplicate check that looks at the first two leaves only.
verify_no_duplicate_leaves_FirstPair(leaves) ==
  IF Len(leaves) >= 2 /\ leaves[1].x_coord = leaves[2].x_coord
  THEN "DuplicateLeaves"
  ELSE "none"

verify_no_duplicate_leaves(leaves) ==
  IF \E i \in 1..(Len(leaves) - 1) : leaves[i].x_coord = leaves[i + 1].x_coord
  THEN "DuplicateLeaves"
  ELSE "none"

BuilderHeight(h) == IF h < MIN_HEIGHT THEN "HeightTooSmall" ELSE "none"

BuilderStoreDepth(given, h) ==
  IF given = <<>> THEN h \div DEFAULT_STORE_DEPTH_RATIO ELSE given[1]

\* A bounds check of the leaf list that skips the x-coord test.
BuilderLeafNodes_NoXCoordCheck(leaves, h) ==
  IF Len(leaves) = 0 THEN "EmptyLeaves"
  ELSE IF Len(leaves) > max_bottom_layer_nodes(h) THEN "TooManyLeaves"
  ELSE "none"

BuilderLeafNodes(leaves, h) ==
  IF Len(leaves) = 0 THEN "EmptyLeaves"
  ELSE IF Len(leaves) > max_bottom_layer_nodes(h) THEN "TooManyLeaves"
  ELSE IF ~(leaves[Len(leaves)].x_coord < max_bottom_layer_nodes(h)) THEN "InvalidXCoord"
  ELSE "none"

----------------------------------------------------------------------------
(* Multi-threaded builder: recursion parameters and pure pieces of build_node *)

RecursionParams(x_min, x_max, y) ==
  [x_coord_min |-> x_min, x_coord_mid |-> (x_min + x_max) \div 2,
   x_coord_max |-> x_max, y_coord |-> y]

RecursionParamsBuild(h) == RecursionParams(0, max_bottom_layer_nodes(h) - 1, h - 1)

build_with_coord(coord) ==
  RecursionParams(subtree_x_coord_bounds(coord)[1], subtree_x_coord_bounds(coord)[2], coord.y)

into_left_child(p) == RecursionParams(p.x_coord_min, p.x_coord_mid, p.y_coord - 1)

into_right_child(p) == RecursionParams(p.x_coord_mid + 1, p.x_coord_max, p.y_coord - 1)

IsPowerOfTwo(v) == \E k \in 0..MAX_HEIGHT : v = 2 ^ k

\* The assertions at the top of build_node (Height::from_y_coord panics for y = 0).
BuildNodeAssertsHold(p, leaves) ==
  /\ p.y_coord + 1 >= MIN_HEIGHT
  /\ p.y_coord + 1 <= MAX_HEIGHT
  /\ Len(leaves) <= 2 ^ p.y_coord
  /\ Len(leaves) # 0
  /\ p.x_coord_min % 2 = 0
  /\ p.x_coord_max % 2 = 1
  /\ IsPowerOfTwo(p.x_coord_max - p.x_coord_min + 1)

\* Number of leading leaves with x <= mid (rposition + 1); 0 = Empty, Len = Full.
num_nodes_left_of(x_coord_mid, nodes) ==
  LET hits == {i \in 1..Len(nodes) : nodes[i].coord.x <= x_coord_mid}
  IN IF hits = {} THEN 0 ELSE CHOOSE i \in hits : \A j \in hits : j <= i

MatchedPairFrom_NoOrientation(a, b) == [left |-> a, right |-> b]

\* MatchedPair::from((a, b)): b must be the right or the left sibling of a.
MatchedPairIsValid(a, b) == is_right_sibling_of(b, a) \/ is_left_sibling_of(b, a)

MatchedPairFrom(a, b) ==
  IF is_right_sibling_of(b, a) THEN [left |-> a, right |-> b]
  ELSE [left |-> b, right |-> a]

PairMergePanics(pair) ==
  overflow_checks /\ MergeOverflows(pair.left.content, pair.right.content)

PairMerge(pair) ==
  Node(Coord(pair.left.coord.y + 1, pair.left.coord.x \div 2),
       FullMerge(pair.left.content, pair.right.content))

\* A store-depth test that keeps one layer more than asked for.
within_store_depth_for_children_OneMore(p, h, depth) == p.y_coord >= h - depth

U8Modulus == 2 ^ 8

\* `params.height.as_u8() - params.store_depth` is a u8 subtraction.
StoreDepthUnderflows(h, depth) == depth > h

within_store_depth_for_children(p, h, depth) == p.y_coord > (h - depth) % U8Modulus

\* Base case (y = 1): the pair of bottom-layer nodes and what is put in the store.
BaseCaseSecond(leaves) ==
  IF Len(leaves) = 2 THEN leaves[2] ELSE new_sibling_padding_node(leaves[Len(leaves)])

BaseCaseFirst(leaves) == IF Len(leaves) = 2 THEN leaves[1] ELSE leaves[Len(leaves)]

\* A base case that also stores the node it returns to its caller.
BaseCaseInserts_WithParent(leaves, h, depth) ==
  {leaves[Len(leaves)],
   IF Len(leaves) = 2 THEN leaves[1] ELSE new_sibling_padding_node(leaves[Len(leaves)]),
   PairMerge(MatchedPairFrom(BaseCaseFirst(leaves), BaseCaseSecond(leaves)))}

BaseCaseInserts_PairsOnly(leaves, h, depth) ==
  IF Len(leaves) = 2 THEN {leaves[1], leaves[2]}
  ELSE IF depth = h THEN {leaves[Len(leaves)], new_sibling_padding_node(leaves[Len(leaves)])}
  ELSE {}

BaseCaseInserts(leaves, h, depth) ==
  IF Len(leaves) = 2 THEN {leaves[1], leaves[2]}
  ELSE {leaves[Len(leaves)]} \cup
       (IF depth = h THEN {new_sibling_padding_node(leaves[Len(leaves)])} ELSE {})

Panicked == [panicked |-> TRUE, node |-> <<>>, inserts |-> {}]

Built(node, inserts) == [panicked |-> FALSE, node |-> <<node>>, inserts |-> inserts]

\* Close a pair of children: panic, or store the children and merge.
FinishPair(a, b, storeChildren, inserts) ==
  IF ~MatchedPairIsValid(a, b) \/ PairMergePanics(MatchedPairFrom(a, b)) THEN Panicked
  ELSE Built(PairMerge(MatchedPairFrom(a, b)),
             IF storeChildren THEN MapInsertAll(inserts, {a, b}) ELSE inserts)

\* build_node when no thread is spawned (max_thread_count = 1): right child first.
RECURSIVE BuildNodeSeq(_, _, _, _)
BuildNodeSeq(p, leaves, h, depth) ==
  IF ~BuildNodeAssertsHold(p, leaves) THEN Panicked
  ELSE IF p.y_coord = 1 THEN
    FinishPair(BaseCaseFirst(leaves), BaseCaseSecond(leaves), FALSE,
               BaseCaseInserts(leaves, h, depth))
  ELSE IF overflow_checks /\ StoreDepthUnderflows(h, depth) THEN Panicked
  ELSE
    LET k == num_nodes_left_of(p.x_coord_mid, leaves)
        store == within_store_depth_for_children(p, h, depth)
    IN IF k = Len(leaves) THEN
         LET l == BuildNodeSeq(into_left_child(p), leaves, h, depth)
         IN IF l.panicked THEN Panicked
            ELSE FinishPair(l.node[1], new_sibling_padding_node(l.node[1]), store, l.inserts)
       ELSE IF k = 0 THEN
         LET r == BuildNodeSeq(into_right_child(p), leaves, h, depth)
         IN IF r.panicked THEN Panicked
            ELSE FinishPair(new_sibling_padding_node(r.node[1]), r.node[1], store, r.inserts)
       ELSE
         LET r == BuildNodeSeq(into_right_child(p), SubSeq(leaves, k + 1, Len(leaves)), h, depth)
             l == BuildNodeSeq(into_left_child(p), SubSeq(leaves, 1, k), h, depth)
         IN IF r.panicked \/ l.panicked THEN Panicked
            ELSE FinishPair(l.node[1], r.node[1], store,
                            MapInsertAll(r.inserts, l.inserts))

\* build_tree run to completion by one thread: [error, panicked, root, map].
BuildTreeFn(leaves, h, depth) ==
  LET sorted == SortByX(leaves)
      err == IF BuilderHeight(h) # "none" THEN BuilderHeight(h)
             ELSE IF BuilderLeafNodes(leaves, h) # "none" THEN BuilderLeafNodes(leaves, h)
             ELSE verify_no_duplicate_leaves(sorted)
      r == BuildNodeSeq(RecursionParamsBuild(h),
                        [j \in 1..Len(sorted) |-> into_node(sorted[j])], h, depth)
  IN IF err # "none" THEN [error |-> err, panicked |-> FALSE, root |-> <<>>, map |-> {}]
     ELSE IF r.panicked THEN [error |-> "none", panicked |-> TRUE, root |-> <<>>, map |-> {}]
     ELSE [error |-> "none", panicked |-> FALSE, root |-> r.node,
           map |-> MapInsert(r.inserts, r.node[1])]

----------------------------------------------------------------------------
(* Multi-threaded build as a state machine: one call stack per thread *)

MainThread == 0

ThreadId(p) == p.x_coord_min * MAX_HEIGHT + p.y_coord

Frame(p, leaves) ==
  [p |-> p, leaves |-> leaves, pc |-> "enter", k |-> 0, left |-> <<>>, right |-> <<>>]

Top(t) == stacks[t][Len(stacks[t])]

SetTop(t, frame) == [stacks EXCEPT ![t] = SubSeq(@, 1, Len(@) - 1) \o <<frame>>]

Push(t, frame, child) ==
  [stacks EXCEPT ![t] = SubSeq(@, 1, Len(@) - 1) \o <<frame, child>>]

\* The caller's frame after the callee handed back `node`.
Resume(frame, node) ==
  IF frame.pc = "await_left_spawned" THEN [frame EXCEPT !.left = <<node>>, !.pc = "join"]
  ELSE IF frame.pc = "await_right" THEN [frame EXCEPT !.right = <<node>>, !.pc = "inline_left"]
  ELSE IF frame.pc = "await_empty" THEN
    [frame EXCEPT !.right = <<node>>, !.left = <<new_sibling_padding_node(node)>>,
                  !.pc = "finish"]
  ELSE IF frame.pc = "await_full" THEN
    [frame EXCEPT !.left = <<node>>, !.right = <<new_sibling_padding_node(node)>>,
                  !.pc = "finish"]
  ELSE [frame EXCEPT !.left = <<node>>, !.pc = "finish"]

\* build_node of thread t returns `node`: to its caller, to the join handle, or to build_tree.
Return(t, node) ==
  IF Len(stacks[t]) > 1 THEN
    /\ stacks' = [stacks EXCEPT ![t] =
                    SubSeq(@, 1, Len(@) - 2) \o <<Resume(@[Len(@) - 1], node)>>]
    /\ UNCHANGED <<handles, root>>
  ELSE IF t = MainThread THEN
    /\ stacks' = [i \in DOMAIN stacks \ {t} |-> stacks[i]]
    /\ root' = <<node>>
    /\ UNCHANGED handles
  ELSE
    /\ stacks' = [i \in DOMAIN stacks \ {t} |-> stacks[i]]
    /\ handles' = [i \in DOMAIN handles \cup {t} |-> IF i = t THEN node ELSE handles[i]]
    /\ UNCHANGED root

Panic ==
  /\ phase' = "panicked"
  /\ UNCHANGED <<stacks, handles, root, map, thread_count>>

Inputs == <<height, store_depth, max_thread_count, input_leaf_nodes, overflow_checks>>

Facade == <<entities, entity_mapping, proof, outcome, gen, hasher>>

\* build_tree up to the first call of build_node: the builder's validation, then the
\* in-place sort of the leaf vector, the duplicate check, into_node.
BuildTreeStart ==
  /\ phase = "input"
  /\ LET pre == IF BuilderHeight(height) # "none" THEN BuilderHeight(height)
                ELSE BuilderLeafNodes(input_leaf_nodes, height)
         sorted == SortByX(input_leaf_nodes)
     IN IF pre # "none"
        THEN /\ phase' = "error"
             /\ build_error' = pre
             /\ UNCHANGED <<stacks, input_leaf_nodes>>
        ELSE IF verify_no_duplicate_leaves(sorted) # "none"
        THEN /\ phase' = "error"
             /\ build_error' = verify_no_duplicate_leaves(sorted)
             /\ input_leaf_nodes' = sorted
             /\ UNCHANGED stacks
        ELSE /\ phase' = "building"
             /\ build_error' = "none"
             /\ input_leaf_nodes' = sorted
             /\ stacks' = [i \in {MainThread} |->
                             <<Frame(RecursionParamsBuild(height),
                                     [j \in 1..Len(sorted) |-> into_node(sorted[j])])>>]
  /\ UNCHANGED <<height, store_depth, max_thread_count, overflow_checks, handles,
                 thread_count, map, root, siblings_out, Facade>>

\* Top of build_node: assertions, base case, or the split of the leaves.
BuildNodeEnter(t) ==
  /\ phase = "building"
  /\ Top(t).pc = "enter"
  /\ LET f == Top(t)
         k == num_nodes_left_of(f.p.x_coord_mid, f.leaves)
     IN IF ~BuildNodeAssertsHold(f.p, f.leaves) THEN Panic
        ELSE IF f.p.y_coord = 1 THEN
          \E a \in {BaseCaseFirst(f.leaves)}, b \in {BaseCaseSecond(f.leaves)} :
             IF ~MatchedPairIsValid(a, b) \/ PairMergePanics(MatchedPairFrom(a, b)) THEN
               /\ phase' = "panicked"
               /\ map' = MapInsertAll(map, BaseCaseInserts(f.leaves, height, store_depth))
               /\ UNCHANGED <<stacks, handles, root, thread_count>>
             ELSE
               /\ map' = MapInsertAll(map, BaseCaseInserts(f.leaves, height, store_depth))
               /\ Return(t, PairMerge(MatchedPairFrom(a, b)))
               /\ UNCHANGED <<phase, thread_count>>
        ELSE IF overflow_checks /\ StoreDepthUnderflows(height, store_depth) THEN Panic
        ELSE IF k = Len(f.leaves) THEN
          /\ stacks' = Push(t, [f EXCEPT !.pc = "await_full", !.k = k],
                            Frame(into_left_child(f.p), f.leaves))
          /\ UNCHANGED <<phase, handles, root, map, thread_count>>
        ELSE IF k = 0 THEN
          /\ stacks' = Push(t, [f EXCEPT !.pc = "await_empty", !.k = k],
                            Frame(into_right_child(f.p), f.leaves))
          /\ UNCHANGED <<phase, handles, root, map, thread_count>>
        ELSE
          /\ stacks' = SetTop(t, [f EXCEPT !.pc = "lock", !.k = k])
          /\ UNCHANGED <<phase, handles, root, map, thread_count>>
  /\ UNCHANGED <<Inputs, build_error, siblings_out, Facade>>

\* A critical section that hands out a thread whatever the counter says.
LockThreadCount_NoLimit(t) ==
  /\ phase = "building"
  /\ Top(t).pc = "lock"
  /\ thread_count' = thread_count + 1
  /\ stacks' = SetTop(t, [Top(t) EXCEPT !.pc = "spawn"])
  /\ UNCHANGED <<height, store_depth, max_thread_count, input_leaf_nodes, overflow_checks,
                 phase, build_error, handles, map, root, siblings_out,
                 entities, entity_mapping, proof, outcome, gen, hasher>>

\* The critical section that decides whether a thread may be spawned.
LockThreadCount(t) ==
  /\ phase = "building"
  /\ Top(t).pc = "lock"
  /\ IF thread_count < max_thread_count
     THEN /\ thread_count' = thread_count + 1
          /\ stacks' = SetTop(t, [Top(t) EXCEPT !.pc = "spawn"])
     ELSE /\ thread_count' = thread_count
          /\ stacks' = SetTop(t, [Top(t) EXCEPT !.pc = "inline_right"])
  /\ UNCHANGED <<Inputs, phase, build_error, handles, map, root, siblings_out, Facade>>

\* thread::spawn for the right child, then the call for the left child.
SpawnRightThread(t) ==
  /\ phase = "building"
  /\ Top(t).pc = "spawn"
  /\ LET f == Top(t)
         rp == into_right_child(f.p)
         pushed == Push(t, [f EXCEPT !.pc = "await_left_spawned"],
                        Frame(into_left_child(f.p), SubSeq(f.leaves, 1, f.k)))
     IN stacks' = [i \in DOMAIN stacks \cup {ThreadId(rp)} |->
                     IF i = ThreadId(rp)
                     THEN <<Frame(rp, SubSeq(f.leaves, f.k + 1, Len(f.leaves)))>>
                     ELSE pushed[i]]
  /\ UNCHANGED <<Inputs, phase, build_error, handles, thread_count, map, root,
                 siblings_out, Facade>>

\* A join on a handle that no thread ever posts.
JoinRightThread_WrongHandle(t) ==
  /\ phase = "building"
  /\ Top(t).pc = "join"
  /\ ThreadId(into_left_child(Top(t).p)) \in DOMAIN handles
  /\ LET id == ThreadId(into_left_child(Top(t).p))
     IN /\ stacks' = SetTop(t, [Top(t) EXCEPT !.right = <<handles[id]>>, !.pc = "release"])
        /\ handles' = [i \in DOMAIN handles \ {id} |-> handles[i]]
  /\ UNCHANGED <<height, store_depth, max_thread_count, input_leaf_nodes, overflow_checks,
                 phase, build_error, thread_count, map, root, siblings_out,
                 entities, entity_mapping, proof, outcome, gen, hasher>>

\* right_handler.join(): waits for the spawned thread to hand back its node.
JoinRightThread(t) ==
  /\ phase = "building"
  /\ Top(t).pc = "join"
  /\ ThreadId(into_right_child(Top(t).p)) \in DOMAIN handles
  /\ LET id == ThreadId(into_right_child(Top(t).p))
     IN /\ stacks' = SetTop(t, [Top(t) EXCEPT !.right = <<handles[id]>>, !.pc = "release"])
        /\ handles' = [i \in DOMAIN handles \ {id} |-> handles[i]]
  /\ UNCHANGED <<Inputs, phase, build_error, thread_count, map, root, siblings_out, Facade>>

\* A thread that is never given back to the pool.
ReleaseThreadCount_NoDecrement(t) ==
  /\ phase = "building"
  /\ Top(t).pc = "release"
  /\ stacks' = SetTop(t, [Top(t) EXCEPT !.pc = "finish"])
  /\ UNCHANGED <<height, store_depth, max_thread_count, input_leaf_nodes, overflow_checks,
                 phase, build_error, handles, thread_count, map, root, siblings_out,
                 entities, entity_mapping, proof, outcome, gen, hasher>>

\* The critical section that gives the thread back to the pool.
ReleaseThreadCount(t) ==
  /\ phase = "building"
  /\ Top(t).pc = "release"
  /\ thread_count' = IF thread_count > 1 THEN thread_count - 1 ELSE thread_count
  /\ stacks' = SetTop(t, [Top(t) EXCEPT !.pc = "finish"])
  /\ UNCHANGED <<Inputs, phase, build_error, handles, map, root, siblings_out, Facade>>

\* No thread to spare: the right child is built by the same thread, ...
BuildRightInline(t) ==
  /\ phase = "building"
  /\ Top(t).pc = "inline_right"
  /\ LET f == Top(t)
     IN stacks' = Push(t, [f EXCEPT !.pc = "await_right"],
                       Frame(into_right_child(f.p), SubSeq(f.leaves, f.k + 1, Len(f.leaves))))
  /\ UNCHANGED <<Inputs, phase, build_error, handles, thread_count, map, root,
                 siblings_out, Facade>>

\* ... and then the left child.
BuildLeftInline(t) ==
  /\ phase = "building"
  /\ Top(t).pc = "inline_left"
  /\ LET f == Top(t)
     IN stacks' = Push(t, [f EXCEPT !.pc = "await_left"],
                       Frame(into_left_child(f.p), SubSeq(f.leaves, 1, f.k)))
  /\ UNCHANGED <<Inputs, phase, build_error, handles, thread_count, map, root,
                 siblings_out, Facade>>

\* Tail of build_node: pair the children, store them if within the store depth, merge.
FinishNode(t) ==
  /\ phase = "building"
  /\ Top(t).pc = "finish"
  /\ LET f == Top(t)
         a == f.left[1]
         b == f.right[1]
         stored == IF within_store_depth_for_children(f.p, height, store_depth)
                   THEN MapInsertAll(map, {a, b}) ELSE map
     IN IF ~MatchedPairIsValid(a, b) THEN Panic
        ELSE IF PairMergePanics(MatchedPairFrom(a, b)) THEN
          /\ phase' = "panicked"
          /\ map' = stored
          /\ UNCHANGED <<stacks, handles, root, thread_count>>
        ELSE /\ map' = stored
             /\ Return(t, PairMerge(MatchedPairFrom(a, b)))
             /\ UNCHANGED <<phase, thread_count>>
  /\ UNCHANGED <<Inputs, build_error, siblings_out, Facade>>

\* build_tree after build_node returned: the root goes into the store.
\* Strong count of the Arc around the store: build_tree's own reference and the
\* `map` argument of every build_node call that has not returned.
StoreReferences ==
  1 + Cardinality(UNION {{<<t, i>> : i \in 1..Len(stacks[t])} : t \in DOMAIN stacks})

BuildTreeFinish ==
  /\ phase = "building"
  /\ root # <<>>
  /\ map' = MapInsert(map, root[1])
  /\ IF StoreReferences = 1
     THEN phase' = "built" /\ UNCHANGED build_error
     ELSE phase' = "error" /\ build_error' = "StoreOwnershipFailure"
  /\ UNCHANGED <<Inputs, stacks, handles, thread_count, root, siblings_out, Facade>>

----------------------------------------------------------------------------
(* Single-threaded builder: bottom-up, layer by layer *)

RECURSIVE FoldPairs(_, _)
FoldPairs(nodes, pairs) ==
  IF nodes = <<>> THEN pairs
  ELSE LET n == Head(nodes)
           last == pairs[Len(pairs)]
       IN IF node_orientation(n) = "Left"
          THEN FoldPairs(Tail(nodes), Append(pairs, [left |-> <<n>>, right |-> <<>>]))
          ELSE IF /\ pairs # <<>>
                  /\ last.left # <<>>
                  /\ is_right_sibling_of(n, last.left[1])
               THEN FoldPairs(Tail(nodes),
                              [pairs EXCEPT ![Len(pairs)] = [last EXCEPT !.right = <<n>>]])
               ELSE FoldPairs(Tail(nodes), Append(pairs, [left |-> <<>>, right |-> <<n>>]))

PadUnmatched(pair) ==
  IF pair.left # <<>> /\ pair.right # <<>> THEN [left |-> pair.left[1], right |-> pair.right[1]]
  ELSE IF pair.left # <<>>
       THEN [left |-> pair.left[1], right |-> new_sibling_padding_node(pair.left[1])]
       ELSE [left |-> new_sibling_padding_node(pair.right[1]), right |-> pair.right[1]]

NextLayer(nodes) ==
  LET pairs == FoldPairs(nodes, <<>>)
  IN [i \in 1..Len(pairs) |-> PadUnmatched(pairs[i])]

RECURSIVE SingleThreadedLayers(_, _, _)
SingleThreadedLayers(nodes, remaining, store) ==
  IF remaining = 0 THEN
    IF Len(nodes) # 1 THEN [panicked |-> TRUE, node |-> <<>>, store |-> store]
    ELSE [panicked |-> FALSE, node |-> <<nodes[1]>>, store |-> MapInsert(store, nodes[1])]
  ELSE
    LET matched == NextLayer(nodes)
    IN IF \E i \in 1..Len(matched) : PairMergePanics(matched[i])
       THEN [panicked |-> TRUE, node |-> <<>>, store |-> store]
       ELSE SingleThreadedLayers(
              [i \in 1..Len(matched) |-> PairMerge(matched[i])],
              remaining - 1,
              MapInsertAll(store, {matched[i].left : i \in 1..Len(matched)}
                                    \cup {matched[i].right : i \in 1..Len(matched)}))

SingleThreadedBuildTree(nodes, h) == SingleThreadedLayers(nodes, h - 1, {})

----------------------------------------------------------------------------
(* Path siblings *)

RECURSIVE StoredLeavesInRange(_, _, _)
StoredLeavesInRange(m, lo, hi) ==
  IF lo > hi THEN <<>>
  ELSE get_leaf_node(m, lo) \o StoredLeavesInRange(m, lo + 1, hi)

NodeBuilderLeaves_SkipFirst(m, coord) ==
  StoredLeavesInRange(m, subtree_x_coord_bounds(coord)[1] + 1, subtree_x_coord_bounds(coord)[2])

NodeBuilderLeaves(m, coord) ==
  StoredLeavesInRange(m, subtree_x_coord_bounds(coord)[1], subtree_x_coord_bounds(coord)[2])

\* node_builder of build_using_multi_threaded_algorithm
NodeBuilderMulti(coord, m, h) ==
  IF NodeBuilderLeaves(m, coord) = <<>>
  THEN Built(Node(coord, new_padding_node_content(coord)), {})
  ELSE BuildNodeSeq(build_with_coord(coord), NodeBuilderLeaves(m, coord), h, MIN_STORE_DEPTH)

\* node_builder of build_using_single_threaded_algorithm
NodeBuilderSingle(coord, m) ==
  IF NodeBuilderLeaves(m, coord) = <<>>
  THEN Built(Node(coord, new_padding_node_content(coord)), {})
  ELSE LET r == SingleThreadedBuildTree(NodeBuilderLeaves(m, coord), coord.y + 1)
       IN [panicked |-> r.panicked, node |-> r.node, inserts |-> {}]

SiblingOf(m, h, coord, variant) ==
  IF get_node(m, coord) # <<>> THEN Built(get_node(m, coord)[1], {})
  ELSE IF variant = "multi" THEN NodeBuilderMulti(coord, m, h)
  ELSE NodeBuilderSingle(coord, m)

RECURSIVE PathSiblingsLoop(_, _, _, _, _, _)
PathSiblingsLoop(m, h, current, remaining, variant, acc) ==
  IF remaining = 0 THEN [panicked |-> FALSE, siblings |-> acc]
  ELSE LET s == SiblingOf(m, h, sibling_coord(current), variant)
       IN IF s.panicked THEN [panicked |-> TRUE, siblings |-> acc]
          ELSE PathSiblingsLoop(m, h, parent_coord(current), remaining - 1, variant,
                                Append(acc, s.node[1]))

PathSiblingsBuild(m, h, leaf_coord, variant) ==
  PathSiblingsLoop(m, h, leaf_coord, h - 1, variant, <<>>)

\* A caller asks for the path siblings of a stored leaf, with either algorithm.
BuildPathSiblings(x, variant) ==
  /\ phase = "built"
  /\ get_leaf_node(map, x) # <<>>
  /\ siblings_out' = <<[leaf |-> x, variant |-> variant,
                        result |-> PathSiblingsBuild(map, height, Coord(0, x), variant)]>>
  /\ UNCHANGED <<Inputs, phase, build_error, stacks, handles, thread_count, map, root, Facade>>

----------------------------------------------------------------------------
(* The builder and its callers *)

RECURSIVE SeqsUpTo(_, _)
SeqsUpTo(S, n) ==
  IF n = 0 THEN {<<>>}
  ELSE SeqsUpTo(S, n - 1) \cup
       {Append(q, e) : q \in {r \in SeqsUpTo(S, n - 1) : Len(r) = n - 1}, e \in S}

InputLiability(x) == 1 + (x % 3)

InputLeafNode(x) == [x_coord |-> x, content |-> LeafContent(x + 1, InputLiability(x), x)]

NoThreads == [i \in {} |-> <<>>]

GenIdle == [i |-> 0, swap_map |-> NoThreads, out |-> <<>>, calls |-> 0, last |-> "none"]

\* Hasher::new twice: nothing given, nothing fed.
HasherIdle == [a |-> [inputs |-> <<>>, stream |-> <<>>], b |-> [inputs |-> <<>>, stream |-> <<>>]]

NoOutcome == [op |-> "none", result |-> "none", tamper |-> "none"]

InitBuild ==
  /\ phase = "input"
  /\ build_error = "none"
  /\ stacks = NoThreads
  /\ handles = NoThreads
  /\ thread_count = 1
  /\ map = {}
  /\ root = <<>>
  /\ siblings_out = <<>>

InitFacade ==
  /\ entities = <<>>
  /\ entity_mapping = <<>>
  /\ proof = <<>>
  /\ outcome = NoOutcome
  /\ gen = GenIdle
  /\ hasher = HasherIdle

Init ==
  /\ height \in MIN_HEIGHT..MaxHeight
  /\ store_depth \in MIN_STORE_DEPTH..height
  /\ max_thread_count \in 1..MaxThreads
  /\ input_leaf_nodes \in
       {[j \in 1..Len(xs) |-> InputLeafNode(xs[j])] :
          xs \in SeqsUpTo(0..max_bottom_layer_nodes(height), MaxLeaves)}
  /\ overflow_checks = TRUE
  /\ InitBuild
  /\ InitFacade

Next ==
  \/ BuildTreeStart
  \/ \E t \in DOMAIN stacks : BuildNodeEnter(t)
  \/ \E t \in DOMAIN stacks : LockThreadCount(t)
  \/ \E t \in DOMAIN stacks : SpawnRightThread(t)
  \/ \E t \in DOMAIN stacks : JoinRightThread(t)
  \/ \E t \in DOMAIN stacks : ReleaseThreadCount(t)
  \/ \E t \in DOMAIN stacks : BuildRightInline(t)
  \/ \E t \in DOMAIN stacks : BuildLeftInline(t)
  \/ \E t \in DOMAIN stacks : FinishNode(t)
  \/ BuildTreeFinish
  \/ \E x \in 0..max_bottom_layer_nodes(height), variant \in {"multi", "single"} :
       BuildPathSiblings(x, variant)

Spec == Init /\ [][Next]_vars

----------------------------------------------------------------------------
(* Random x-coordinate generator: lazy Fisher-Yates shuffle over [0, 2^(height-1)) *)

MaxFailedCalls == 2

SwapMapInsert(m, k, v) == [j \in DOMAIN m \cup {k} |-> IF j = k THEN v ELSE m[j]]

\* Follow the chain of swapped values; a chain longer than the map has a cycle.
RECURSIVE FollowChain(_, _, _)
FollowChain(m, x, fuel) ==
  IF x \notin DOMAIN m THEN x
  ELSE IF fuel = 0 THEN 0 - 1
  ELSE FollowChain(m, m[x], fuel - 1)

SwappedValue_NoChain(m, k) == IF k \in DOMAIN m THEN m[k] ELSE k

\* The x-coord handed out when the sampler picked k.
SwappedValue(m, k) ==
  IF k \in DOMAIN m THEN FollowChain(m, m[k], Cardinality(DOMAIN m)) ELSE k

\* new_unique_x_coord, sampler outcome k in [i, N).
NewUniqueXCoord(k) ==
  /\ phase = "generator"
  /\ gen.i < max_bottom_layer_nodes(height)
  /\ k \in gen.i..(max_bottom_layer_nodes(height) - 1)
  /\ gen' = [i |-> gen.i + 1,
             swap_map |-> SwapMapInsert(gen.swap_map, k, gen.i),
             out |-> Append(gen.out, SwappedValue(gen.swap_map, k)),
             calls |-> gen.calls + 1,
             last |-> "Ok"]
  /\ UNCHANGED <<Inputs, phase, build_error, stacks, handles, thread_count, map, root,
                 siblings_out, entities, entity_mapping, proof, outcome,
                 hasher>>

NewUniqueXCoordOutOfBounds_Early ==
  /\ phase = "generator"
  /\ gen.calls < max_bottom_layer_nodes(height) + MaxFailedCalls
  /\ gen.i + 1 >= max_bottom_layer_nodes(height)
  /\ gen' = [gen EXCEPT !.calls = gen.calls + 1, !.last = "OutOfBounds"]
  /\ UNCHANGED <<Inputs, phase, build_error, stacks, handles, thread_count, map, root,
                 siblings_out, entities, entity_mapping, proof, outcome,
                 hasher>>

\* new_unique_x_coord once every x-coord has been handed out.
NewUniqueXCoordOutOfBounds ==
  /\ phase = "generator"
  /\ gen.calls < max_bottom_layer_nodes(height) + MaxFailedCalls
  /\ ~(gen.i < max_bottom_layer_nodes(height))
  /\ gen' = [gen EXCEPT !.calls = gen.calls + 1, !.last = "OutOfBounds"]
  /\ UNCHANGED <<Inputs, phase, build_error, stacks, handles, thread_count, map, root,
                 siblings_out, entities, entity_mapping, proof, outcome,
                 hasher>>

InitXCoord ==
  /\ height \in MIN_HEIGHT..MaxHeight
  /\ store_depth = MIN_STORE_DEPTH
  /\ max_thread_count = 1
  /\ input_leaf_nodes = <<>>
  /\ overflow_checks = TRUE
  /\ phase = "generator"
  /\ build_error = "none"
  /\ stacks = NoThreads
  /\ handles = NoThreads
  /\ thread_count = 1
  /\ map = {}
  /\ root = <<>>
  /\ siblings_out = <<>>
  /\ InitFacade

NextXCoord ==
  \/ \E k \in 0..(max_bottom_layer_nodes(height) - 1) : NewUniqueXCoord(k)
  \/ NewUniqueXCoordOutOfBounds

SpecXCoord == InitXCoord /\ [][NextXCoord]_vars

\* C5: whatever the sampler picks, the x-coordinates a generator has handed out
\* are pairwise distinct and each lies in [0, 2^(height-1)).
C5_XCoordsDistinctAndInRange ==
  (phase = "generator") =>
    /\ \A a \in 1..Len(gen.out) :
         gen.out[a] >= 0 /\ gen.out[a] < max_bottom_layer_nodes(height)
    /\ \A a, b \in 1..Len(gen.out) : gen.out[a] = gen.out[b] => a = b

C5_Witness ==
  /\ phase = "generator"
  /\ height = MaxHeight
  /\ Len(gen.out) = max_bottom_layer_nodes(height)
  /\ \E a \in 1..Len(gen.out) : gen.out[a] < a - 1
  /\ \A a, b \in 1..Len(gen.out) : gen.out[a] = gen.out[b] => a = b

\* C6: the call made after i earlier calls fails with OutOfBounds if and only if
\* i >= 2^(height-1): exactly the first 2^(height-1) calls succeed.
C6_OutOfBoundsIffExhausted ==
  (phase = "generator" /\ gen.calls > 0) =>
    /\ (gen.last = "OutOfBounds") <=> (gen.calls - 1 >= max_bottom_layer_nodes(height))
    /\ (gen.last = "Ok") <=> (gen.calls - 1 < max_bottom_layer_nodes(height))

C6_Witness ==
  /\ phase = "generator"
  /\ gen.last = "OutOfBounds"
  /\ gen.calls = max_bottom_layer_nodes(height) + 1
  /\ Len(gen.out) = max_bottom_layer_nodes(height)

----------------------------------------------------------------------------
(* Path reconstruction from a leaf and its siblings *)

\* A sibling test that accepts any neighbour on the same layer.
MatchedPairRefIsValid_AnyNeighbour(left, right) ==
  /\ right.coord.y = left.coord.y
  /\ (right.coord.x = left.coord.x + 1 \/ left.coord.x = right.coord.x + 1)

MatchedPairRefIsValid(left, right) ==
  is_right_sibling_of(right, left) \/ is_left_sibling_of(right, left)

MatchedPairRefFrom(left, right) ==
  IF is_right_sibling_of(right, left) THEN [left |-> left, right |-> right]
  ELSE [left |-> right, right |-> left]

MatchedPairRefMerge(pair, flavour) ==
  Node(Coord(pair.left.coord.y + 1, pair.left.coord.x \div 2),
       IF flavour = "full" THEN FullMerge(pair.left.content, pair.right.content)
       ELSE HiddenMerge(pair.left.content, pair.right.content))

RECURSIVE ConstructPathLoop(_, _, _)
ConstructPathLoop(nodes, siblings, flavour) ==
  IF siblings = <<>> THEN [error |-> "none", panicked |-> FALSE, nodes |-> nodes]
  ELSE LET parent == nodes[Len(nodes)]
           node == Head(siblings)
       IN IF ~MatchedPairRefIsValid(node, parent)
          THEN [error |-> "InvalidSibling", panicked |-> FALSE, nodes |-> <<>>]
          ELSE IF flavour = "full" /\ PairMergePanics(MatchedPairRefFrom(node, parent))
          THEN [error |-> "none", panicked |-> TRUE, nodes |-> <<>>]
          ELSE ConstructPathLoop(
                 Append(nodes, MatchedPairRefMerge(MatchedPairRefFrom(node, parent), flavour)),
                 Tail(siblings), flavour)

construct_path(siblings, leaf, flavour) ==
  IF Len(siblings) < MIN_HEIGHT
  THEN [error |-> "TooFewSiblings", panicked |-> FALSE, nodes |-> <<>>]
  ELSE ConstructPathLoop(<<leaf>>, siblings, flavour)

RECURSIVE ConstructRootLoop(_, _, _)
ConstructRootLoop(parent, siblings, flavour) ==
  IF siblings = <<>> THEN [error |-> "none", panicked |-> FALSE, node |-> <<parent>>]
  ELSE LET node == Head(siblings)
       IN IF ~MatchedPairRefIsValid(node, parent)
          THEN [error |-> "InvalidSibling", panicked |-> FALSE, node |-> <<>>]
          ELSE IF flavour = "full" /\ PairMergePanics(MatchedPairRefFrom(node, parent))
          THEN [error |-> "none", panicked |-> TRUE, node |-> <<>>]
          ELSE ConstructRootLoop(MatchedPairRefMerge(MatchedPairRefFrom(node, parent), flavour),
                                 Tail(siblings), flavour)

construct_root_node(siblings, leaf, flavour) ==
  IF Len(siblings) < MIN_HEIGHT
  THEN [error |-> "TooFewSiblings", panicked |-> FALSE, node |-> <<>>]
  ELSE ConstructRootLoop(leaf, siblings, flavour)

ConvertNode(node) == Node(node.coord, HiddenFromFull(node.content))

----------------------------------------------------------------------------
(* Aggregation factor and range proofs *)

Percent(p) == [kind |-> "Percent", value |-> p]

Divisor(d) == [kind |-> "Divisor", value |-> d]

AggregationFactorDefault == Percent(100)

apply_to(factor, tree_height) ==
  IF factor.kind = "Percent" THEN (tree_height * factor.value) \div 100
  ELSE tree_height \div factor.value

is_zero(factor, tree_height) == apply_to(factor, tree_height) = 0

is_max(factor, tree_height) == apply_to(factor, tree_height) = tree_height

RangeBits == U64Bits \div 2

InRange(liability, n) == liability < 2 ^ n

RECURSIVE NextPowerOfTwo(_, _)
NextPowerOfTwo(count, p) == IF p >= count THEN p ELSE NextPowerOfTwo(count, 2 * p)

PaddingCommitment == PedersenCommit(0, 1)

PadToPowerOfTwo(coms) ==
  [j \in 1..NextPowerOfTwo(Len(coms), 1) |->
     IF j <= Len(coms) THEN coms[j] ELSE PaddingCommitment]

\* A range proof is sound and complete: it verifies against exactly the commitments
\* it was made for, and only if every committed value has at most n bits.
IndividualRangeProofGenerate(liability, blinding_factor, n) ==
  [coms |-> <<PedersenCommit(ScalarFromU64(liability), blinding_factor)>>,
   n |-> n, valid |-> InRange(liability, n)]

IndividualRangeProofVerify(rp, commitment, n) ==
  rp.valid /\ rp.n = n /\ rp.coms = <<commitment>>

AggregatedRangeProofGenerate(nodes, n) ==
  [coms |-> PadToPowerOfTwo([j \in 1..Len(nodes) |->
              PedersenCommit(ScalarFromU64(nodes[j].content.liability),
                             nodes[j].content.blinding_factor)]),
   n |-> n, valid |-> \A j \in 1..Len(nodes) : InRange(nodes[j].content.liability, n)]

AggregatedRangeProofVerify(rp, commitments, n) ==
  rp.valid /\ rp.n = n /\ rp.coms = PadToPowerOfTwo(commitments)

----------------------------------------------------------------------------
(* Inclusion proof: generation and verification *)

HeightFromYCoordPanics(y) == y + 1 < MIN_HEIGHT \/ y + 1 > MAX_HEIGHT

ProofFailure(err) == [error |-> err, panicked |-> FALSE, proof |-> <<>>]

ProofPanic == [error |-> "none", panicked |-> TRUE, proof |-> <<>>]

\* A split that keeps one node too few for the aggregated proof.
nodes_for_aggregation_OneLess(path_nodes, aggregation_index) ==
  SubSeq(path_nodes, 1, aggregation_index - 1)

\* split_off(aggregation_index): what stays in nodes_for_aggregation and what
\* moves to nodes_for_individual_proofs.
nodes_for_aggregation(path_nodes, aggregation_index) == SubSeq(path_nodes, 1, aggregation_index)

\* A split that hands every path node to the individual proofs.
nodes_for_individual_proofs_NoSplit(path_nodes, aggregation_index) == path_nodes

nodes_for_individual_proofs(path_nodes, aggregation_index) ==
  SubSeq(path_nodes, aggregation_index + 1, Len(path_nodes))

InclusionProofGenerate(leaf_node, path_siblings, factor, n) ==
  IF HeightFromYCoordPanics(Len(path_siblings)) THEN ProofPanic
  ELSE
    LET tree_height == Len(path_siblings) + 1
        aggregation_index == apply_to(factor, tree_height)
        path == construct_path(path_siblings, leaf_node, "full")
    IN IF path.panicked THEN ProofPanic
       ELSE IF path.error # "none" THEN ProofFailure(path.error)
       ELSE IF aggregation_index > Len(path.nodes) THEN ProofPanic
       ELSE
         [error |-> "none", panicked |-> FALSE,
          proof |-> <<[
            path_siblings |-> [j \in 1..Len(path_siblings) |-> ConvertNode(path_siblings[j])],
            leaf_node |-> leaf_node,
            individual_range_proofs |->
              IF is_max(factor, tree_height) THEN <<>>
              ELSE LET rest == nodes_for_individual_proofs(path.nodes, aggregation_index)
                   IN <<[j \in 1..Len(rest) |->
                          IndividualRangeProofGenerate(rest[j].content.liability,
                                                       rest[j].content.blinding_factor, n)]>>,
            aggregated_range_proof |->
              IF is_zero(factor, tree_height) THEN <<>>
              ELSE <<AggregatedRangeProofGenerate(
                       nodes_for_aggregation(path.nodes, aggregation_index), n)>>,
            aggregation_factor |-> factor,
            upper_bound_bit_length |-> n]>>]

verify_merkle_path(root_hash, tree_height, path_nodes) ==
  IF path_nodes[Len(path_nodes)].coord # Coord(tree_height - 1, 0)
     \/ path_nodes[Len(path_nodes)].content.hash # root_hash
  THEN "RootMismatch" ELSE "Ok"

Min(a, b) == IF a < b THEN a ELSE b

\* The positions on the path (1 = leaf) whose commitment is handed to a proof's verify.
CheckedPositions(pr, tree_height) ==
  LET aggregation_index == apply_to(pr.aggregation_factor, tree_height)
  IN (IF pr.aggregated_range_proof # <<>> THEN 1..aggregation_index ELSE {})
     \cup (IF pr.individual_range_proofs # <<>>
           THEN {aggregation_index + j :
                   j \in 1..Min(Len(pr.individual_range_proofs[1]),
                                tree_height - aggregation_index)}
           ELSE {})

verify_range_proofs(pr, tree_height, path_nodes) ==
  LET aggregation_index == apply_to(pr.aggregation_factor, tree_height)
      commitments == [j \in 1..Len(path_nodes) |-> path_nodes[j].content.commitment]
  IN IF aggregation_index > Len(commitments) THEN "panic"
     ELSE IF /\ pr.individual_range_proofs # <<>>
             /\ \E j \in 1..Min(Len(pr.individual_range_proofs[1]),
                                Len(commitments) - aggregation_index) :
                  ~IndividualRangeProofVerify(pr.individual_range_proofs[1][j],
                                              commitments[aggregation_index + j],
                                              pr.upper_bound_bit_length)
     THEN "RangeProofError"
     ELSE IF /\ pr.aggregated_range_proof # <<>>
             /\ ~AggregatedRangeProofVerify(pr.aggregated_range_proof[1],
                                            SubSeq(commitments, 1, aggregation_index),
                                            pr.upper_bound_bit_length)
     THEN "RangeProofError"
     ELSE IF pr.individual_range_proofs = <<>> /\ pr.aggregated_range_proof = <<>>
     THEN "MissingRangeProof"
     ELSE "Ok"

InclusionProofVerify(pr, root_hash) ==
  IF HeightFromYCoordPanics(Len(pr.path_siblings)) THEN "panic"
  ELSE
    LET tree_height == Len(pr.path_siblings) + 1
        path == construct_path(pr.path_siblings, ConvertNode(pr.leaf_node), "hidden")
    IN IF path.error # "none" THEN path.error
       ELSE IF verify_merkle_path(root_hash, tree_height, path.nodes) # "Ok"
       THEN verify_merkle_path(root_hash, tree_height, path.nodes)
       ELSE verify_range_proofs(pr, tree_height, path.nodes)

verify_root_commitment(public_commitment, liability, blinding_factor) ==
  IF PedersenCommit(ScalarFromU64(liability), blinding_factor) = public_commitment
  THEN "Ok" ELSE "RootVerificationError"

----------------------------------------------------------------------------
(* The tree facade: new, generate_inclusion_proof, verify, verify_root_commitment *)

MaxEntities == 2

MaxProofHeight == 4

LiabilityValues == {1, 2 ^ RangeBits - 1, U64Modulus - 1}

AggregationFactors == {AggregationFactorDefault, Divisor(2), Percent(0)}

\* The x-coords the generator hands out for the sampler picks ks.
RECURSIVE GeneratorRun(_, _, _, _, _)
GeneratorRun(h, m, i, ks, out) ==
  IF ks = <<>> THEN [error |-> "none", x_coords |-> out]
  ELSE IF ~(i < max_bottom_layer_nodes(h)) THEN [error |-> "OutOfBounds", x_coords |-> out]
  ELSE GeneratorRun(h, SwapMapInsert(m, Head(ks), i), i + 1, Tail(ks),
                    Append(out, SwappedValue(m, Head(ks))))

SamplerPicks(h, count) ==
  {ks \in [1..count -> 0..(max_bottom_layer_nodes(h) - 1)] :
     \A j \in 1..count : j - 1 >= max_bottom_layer_nodes(h) \/ ks[j] >= j - 1}

EntityLeafNodes(es, xs) ==
  [j \in 1..Len(xs) |->
     [x_coord |-> xs[j], content |-> LeafContent(es[j].id, es[j].liability, xs[j])]]

\* A duplicate-id check that only compares neighbouring entities.
HasDuplicateEntityIds_Adjacent(es) == \E a \in 1..(Len(es) - 1) : es[a].id = es[a + 1].id

HasDuplicateEntityIds(es) == \E a, b \in 1..Len(es) : a < b /\ es[a].id = es[b].id

\* The id the entity_mapping loop stops at: that of the first entity whose id an
\* earlier entity of the list already has.
FirstDuplicateEntityId(es) ==
  LET b == CHOOSE b \in 1..Len(es) :
             /\ \E a \in 1..(b - 1) : es[a].id = es[b].id
             /\ \A c \in 1..(b - 1) : ~(\E a \in 1..(c - 1) : es[a].id = es[c].id)
  IN es[b].id

NewOutcome(err, id) == [op |-> "new", result |-> err, tamper |-> "none", entity_id |-> id]

\* NdmSmt::new behind DapolTree::new.
NdmSmtNew(ks) ==
  /\ phase = "facade_input"
  /\ LET g == GeneratorRun(height, NoThreads, 0, ks, <<>>)
         leaves == EntityLeafNodes(entities, g.x_coords)
         tree == BuildTreeFn(leaves, height, BuilderStoreDepth(<<>>, height))
         err == IF g.error # "none" THEN "HeightTooSmall"
                ELSE IF HasDuplicateEntityIds(entities) THEN "DuplicateEntityIds"
                ELSE tree.error
     IN IF err # "none" THEN
          /\ phase' = "new_error"
          /\ build_error' = err
          /\ outcome' = NewOutcome(err, IF err = "DuplicateEntityIds"
                                        THEN <<FirstDuplicateEntityId(entities)>> ELSE <<>>)
          /\ UNCHANGED <<store_depth, input_leaf_nodes, entity_mapping, map, root>>
        ELSE IF tree.panicked THEN
          /\ phase' = "panicked"
          /\ UNCHANGED <<store_depth, build_error, input_leaf_nodes, entity_mapping, map, root,
                         outcome>>
        ELSE
          /\ phase' = "tree"
          /\ store_depth' = BuilderStoreDepth(<<>>, height)
          /\ input_leaf_nodes' = SortByX(leaves)
          /\ entity_mapping' = g.x_coords
          /\ map' = tree.map
          /\ root' = tree.root
          /\ outcome' = NewOutcome("Ok", <<>>)
          /\ UNCHANGED build_error
  /\ UNCHANGED <<height, max_thread_count, overflow_checks, stacks, handles, thread_count,
                 siblings_out, entities, proof, gen, hasher>>

\* DapolTree::generate_inclusion_proof_with for the e-th entity.
GenerateInclusionProof(e, factor) ==
  /\ phase = "tree"
  /\ e \in 1..Len(entities)
  /\ LET leaf == get_leaf_node(map, entity_mapping[e])
         sibs == PathSiblingsBuild(map, height, Coord(0, entity_mapping[e]), "multi")
         r == IF sibs.panicked THEN ProofPanic
              ELSE InclusionProofGenerate(leaf[1], sibs.siblings, factor, RangeBits)
     IN IF leaf = <<>> THEN
          /\ outcome' = [op |-> "generate", result |-> "EntityIdNotFound", tamper |-> "none"]
          /\ phase' = "generate_failed"
          /\ UNCHANGED proof
        ELSE
          /\ outcome' = [op |-> "generate", tamper |-> "none",
                         result |-> IF r.panicked THEN "panic"
                                    ELSE IF r.error # "none" THEN r.error ELSE "Ok"]
          /\ phase' = IF r.panicked \/ r.error # "none" THEN "generate_failed" ELSE "proved"
          /\ proof' = r.proof
  /\ UNCHANGED <<Inputs, build_error, stacks, handles, thread_count, map, root, siblings_out,
                 entities, entity_mapping, gen, hasher>>

\* InclusionProof::verify against the root hash of the tree.
Verify ==
  /\ phase \in {"proved", "tampered"}
  /\ outcome' = [op |-> "verify", tamper |-> outcome.tamper,
                 result |-> InclusionProofVerify(proof[1], root[1].content.hash)]
  /\ phase' = IF phase = "proved" THEN "verified" ELSE "reverified"
  /\ UNCHANGED <<Inputs, build_error, stacks, handles, thread_count, map, root, siblings_out,
                 entities, entity_mapping, proof, gen, hasher>>

\* DapolTree::verify_root_commitment with the root's own secret data.
VerifyRootCommitment ==
  /\ phase = "tree"
  /\ outcome' = [op |-> "verify_root_commitment", tamper |-> "none",
                 result |-> verify_root_commitment(root[1].content.commitment,
                                                   root[1].content.liability,
                                                   root[1].content.blinding_factor)]
  /\ phase' = "root_checked"
  /\ UNCHANGED <<Inputs, build_error, stacks, handles, thread_count, map, root, siblings_out,
                 entities, entity_mapping, proof, gen, hasher>>

\* What a holder of a proof can change in it before it is verified.
TamperKinds ==
  {"leaf_liability", "leaf_blinding_factor", "leaf_commitment", "leaf_hash",
   "sibling_commitment", "sibling_hash", "aggregated_range_proof",
   "individual_range_proof", "individual_range_proof_removed"}

TamperApplies(pr, kind, j) ==
  IF kind \in {"sibling_commitment", "sibling_hash"} THEN j \in 1..Len(pr.path_siblings)
  ELSE IF kind = "aggregated_range_proof" THEN j = 1 /\ pr.aggregated_range_proof # <<>>
  ELSE IF kind = "individual_range_proof"
  THEN pr.individual_range_proofs # <<>> /\ j \in 1..Len(pr.individual_range_proofs[1])
  ELSE IF kind = "individual_range_proof_removed"
  THEN pr.individual_range_proofs # <<>> /\ j = Len(pr.individual_range_proofs[1]) /\ j > 0
  ELSE j = 1

Tampered(pr, kind, j) ==
  IF kind = "leaf_liability" THEN
    [pr EXCEPT !.leaf_node.content.liability = (@ + 1) % U64Modulus]
  ELSE IF kind = "leaf_blinding_factor" THEN
    [pr EXCEPT !.leaf_node.content.blinding_factor = (@ + 1) % GroupOrder]
  ELSE IF kind = "leaf_commitment" THEN
    [pr EXCEPT !.leaf_node.content.commitment.v = (@ + 1) % GroupOrder]
  ELSE IF kind = "leaf_hash" THEN
    [pr EXCEPT !.leaf_node.content.hash = Blake3(@)]
  ELSE IF kind = "sibling_commitment" THEN
    [pr EXCEPT !.path_siblings[j].content.commitment.r = (@ + 1) % GroupOrder]
  ELSE IF kind = "sibling_hash" THEN
    [pr EXCEPT !.path_siblings[j].content.hash = Blake3(@)]
  ELSE IF kind = "aggregated_range_proof" THEN
    [pr EXCEPT !.aggregated_range_proof[1].valid = FALSE]
  ELSE IF kind = "individual_range_proof" THEN
    [pr EXCEPT !.individual_range_proofs[1][j].valid = FALSE]
  ELSE
    [pr EXCEPT !.individual_range_proofs[1] = SubSeq(@, 1, Len(@) - 1)]

\* A proof that verified is changed in one place and handed to verify again.
Tamper(kind, j) ==
  /\ phase = "verified"
  /\ outcome.result = "Ok"
  /\ TamperApplies(proof[1], kind, j)
  /\ proof' = <<Tampered(proof[1], kind, j)>>
  /\ outcome' = [op |-> "tamper", result |-> "none", tamper |-> kind]
  /\ phase' = "tampered"
  /\ UNCHANGED <<Inputs, build_error, stacks, handles, thread_count, map, root, siblings_out,
                 entities, entity_mapping, gen, hasher>>

InitProof ==
  /\ height \in MIN_HEIGHT..MaxProofHeight
  /\ store_depth = MIN_STORE_DEPTH
  /\ max_thread_count = 1
  /\ input_leaf_nodes = <<>>
  /\ overflow_checks \in BOOLEAN
  /\ phase = "facade_input"
  /\ build_error = "none"
  /\ stacks = NoThreads
  /\ handles = NoThreads
  /\ thread_count = 1
  /\ map = {}
  /\ root = <<>>
  /\ siblings_out = <<>>
  /\ entities \in SeqsUpTo([id : 1..MaxEntities, liability : LiabilityValues], MaxEntities)
  /\ entity_mapping = <<>>
  /\ proof = <<>>
  /\ outcome = NoOutcome
  /\ gen = GenIdle
  /\ hasher = HasherIdle

NextProof ==
  \/ \E ks \in SamplerPicks(height, Len(entities)) : NdmSmtNew(ks)
  \/ \E e \in 1..MaxEntities, factor \in AggregationFactors : GenerateInclusionProof(e, factor)
  \/ Verify
  \/ \E kind \in TamperKinds, j \in 1..MAX_HEIGHT : Tamper(kind, j)
  \/ VerifyRootCommitment

SpecProof == InitProof /\ [][NextProof]_vars

----------------------------------------------------------------------------
(* Properties of the facade *)

\* C2: for every tree that new builds and every entity in it, generating the
\* inclusion proof succeeds and verifying it against the root hash returns Ok.
C2_GeneratedProofVerifies ==
  /\ (outcome.op = "generate") => (outcome.result = "Ok")
  /\ (phase = "verified") => (outcome.result = "Ok")

\* C3: a proof that verified and was then changed in its leaf content (liability,
\* blinding factor, commitment or hash), in a sibling or in a range proof is
\* rejected by verify.
C3_TamperedProofIsRejected ==
  (phase = "reverified" /\ outcome.tamper # "individual_range_proof_removed") =>
    (outcome.result # "Ok")

\* C4: verify returns Ok only if each of the height commitments on the
\* reconstructed path was handed to a range proof that verified: the first
\* k = apply_to(height) to the aggregated proof, each of the others to an
\* individual proof.
C4_OkOnlyIfEveryCommitmentChecked ==
  (outcome.op = "verify" /\ outcome.result = "Ok") =>
    (CheckedPositions(proof[1], Len(proof[1].path_siblings) + 1)
       = 1..(Len(proof[1].path_siblings) + 1))

\* C7: for every tree that new builds, whatever the u64 liabilities of the
\* entities, the root commitment opens to the root's liability and blinding
\* factor: verify_root_commitment returns Ok.
C7_RootCommitmentOpens ==
  (outcome.op = "verify_root_commitment") => (outcome.result = "Ok")

----------------------------------------------------------------------------
(* Properties of the builder *)

SortedInputNodes ==
  [j \in 1..Len(input_leaf_nodes) |-> into_node(SortByX(input_leaf_nodes)[j])]

PermutationsOf(q) ==
  {[i \in 1..Len(q) |-> q[f[i]]] :
     f \in {g \in [1..Len(q) -> 1..Len(q)] : \A i, j \in 1..Len(q) : g[i] = g[j] => i = j}}

RECURSIVE Ancestor(_, _)
Ancestor(coord, layers) ==
  IF layers = 0 THEN coord ELSE Ancestor(parent_coord(coord), layers - 1)

FullStore == BuildTreeFn(input_leaf_nodes, height, height).map

\* C1: whatever max_thread_count is and however the threads interleave, the root
\* the multi-threaded build hands back is the root the single-threaded build
\* produces from the same leaves.
C1_RootEqualsSingleThreadedRoot ==
  (root # <<>>) =>
    LET st == SingleThreadedBuildTree(SortedInputNodes, height)
    IN ~st.panicked /\ root = st.node

C1_Witness ==
  /\ phase = "built"
  /\ height = MaxHeight
  /\ max_thread_count = MaxThreads
  /\ Len(input_leaf_nodes) = MaxLeaves
  /\ root = SingleThreadedBuildTree(SortedInputNodes, height).node

\* C8: after a successful build, whatever the store depth, every input leaf is
\* in the store at (y = 0, x = its x-coord) with the content it was given.
C8_InputLeavesAreStored ==
  (phase = "built") =>
    \A i \in 1..Len(input_leaf_nodes) :
      get_leaf_node(map, input_leaf_nodes[i].x_coord) = <<into_node(input_leaf_nodes[i])>>

C8_Witness ==
  /\ phase = "built"
  /\ store_depth = MIN_STORE_DEPTH
  /\ height = MaxHeight
  /\ Len(input_leaf_nodes) = MaxLeaves
  /\ \A i \in 1..Len(input_leaf_nodes) :
       get_leaf_node(map, input_leaf_nodes[i].x_coord) = <<into_node(input_leaf_nodes[i])>>

\* C9: the root does not depend on the order of the input leaf list: building
\* any permutation of the list gives the root that was built.
C9_RootIsOrderIndependent ==
  (phase = "built") =>
    \A q \in PermutationsOf(input_leaf_nodes) :
      LET r == BuildTreeFn(q, height, store_depth)
      IN r.error = "none" /\ ~r.panicked /\ r.root = root

C9_Witness ==
  /\ phase = "built"
  /\ Len(input_leaf_nodes) = MaxLeaves
  /\ \E q \in PermutationsOf(input_leaf_nodes) :
       /\ q # SortByX(q)
       /\ BuildTreeFn(q, height, store_depth).root = root

\* C10: for either algorithm and any store depth in [1, height], the path
\* siblings of a stored leaf are exactly height - 1 nodes, ordered from y = 0 to
\* y = height - 2, the i-th at the sibling coordinate of the leaf's ancestor on
\* layer i, each equal to the node a build that stores everything has there.
C10_PathSiblingsMatchFullStore ==
  (siblings_out # <<>>) =>
    LET s == siblings_out[1]
        full == FullStore
    IN /\ ~s.result.panicked
       /\ Len(s.result.siblings) = height - 1
       /\ \A i \in 1..(height - 1) :
            /\ s.result.siblings[i].coord.y = i - 1
            /\ s.result.siblings[i].coord = sibling_coord(Ancestor(Coord(0, s.leaf), i - 1))
            /\ get_node(full, s.result.siblings[i].coord) = <<s.result.siblings[i]>>

C10_Witness ==
  /\ siblings_out # <<>>
  /\ height = MaxHeight
  /\ store_depth = MIN_STORE_DEPTH
  /\ siblings_out[1].variant = "single"
  /\ Len(siblings_out[1].result.siblings) = height - 1
  /\ \E i \in 2..(height - 1) :
       /\ siblings_out[1].result.siblings[i].content.liability > 0
       /\ get_node(map, siblings_out[1].result.siblings[i].coord) = <<>>
       /\ get_node(FullStore, siblings_out[1].result.siblings[i].coord)
            = <<siblings_out[1].result.siblings[i]>>

----------------------------------------------------------------------------
(* Properties of the builder's input validation *)

HasInvalidXCoord ==
  \E i \in 1..Len(input_leaf_nodes) :
    input_leaf_nodes[i].x_coord >= max_bottom_layer_nodes(height)

HasDuplicateXCoord ==
  \E i, j \in 1..Len(input_leaf_nodes) :
    i # j /\ input_leaf_nodes[i].x_coord = input_leaf_nodes[j].x_coord

LeafCountWithinLimit ==
  Len(input_leaf_nodes) > 0 /\ Len(input_leaf_nodes) <= max_bottom_layer_nodes(height)

\* C11: whenever some input leaf has x_coord >= 2^(height-1) and the leaf count is
\* within the limit, the build returns InvalidXCoord wherever that leaf sits in the
\* list, and no tree is built.
C11_InvalidXCoordIsRejected ==
  (phase # "input" /\ LeafCountWithinLimit /\ HasInvalidXCoord) =>
    (phase = "error" /\ build_error = "InvalidXCoord" /\ root = <<>> /\ map = {})

\* C12 as stated: the build returns DuplicateLeaves whenever two input leaves
\* share an x_coord, whatever the order of the leaves in the list.
C12_DuplicateLeavesAlways ==
  (phase # "input" /\ HasDuplicateXCoord) =>
    (phase = "error" /\ build_error = "DuplicateLeaves")

\* C12 amended: when the leaf count is within the limit and every x_coord is
\* below 2^(height-1), the build returns DuplicateLeaves whenever two input
\* leaves share an x_coord, whatever their order, and builds nothing.
C12_DuplicateLeavesAmongValidInput ==
  (phase # "input" /\ LeafCountWithinLimit /\ ~HasInvalidXCoord /\ HasDuplicateXCoord) =>
    (phase = "error" /\ build_error = "DuplicateLeaves" /\ root = <<>> /\ map = {})

C12_Witness ==
  /\ phase = "error"
  /\ build_error = "DuplicateLeaves"
  /\ ~HasInvalidXCoord
  /\ Len(input_leaf_nodes) = MaxLeaves
  /\ input_leaf_nodes[1].x_coord # input_leaf_nodes[2].x_coord
  /\ input_leaf_nodes[2].x_coord = input_leaf_nodes[3].x_coord

----------------------------------------------------------------------------
(* NdmSmt::new on its own: entity lists longer than the bottom layer *)

MaxNewHeight == 3

MaxNewEntities == 3

InitNew ==
  /\ height \in MIN_HEIGHT..MaxNewHeight
  /\ store_depth = MIN_STORE_DEPTH
  /\ max_thread_count = 1
  /\ input_leaf_nodes = <<>>
  /\ overflow_checks = TRUE
  /\ phase = "facade_input"
  /\ build_error = "none"
  /\ stacks = NoThreads
  /\ handles = NoThreads
  /\ thread_count = 1
  /\ map = {}
  /\ root = <<>>
  /\ siblings_out = <<>>
  /\ entities \in SeqsUpTo([id : 1..MaxNewEntities, liability : {1, 2}], MaxNewEntities)
  /\ entity_mapping = <<>>
  /\ proof = <<>>
  /\ outcome = NoOutcome
  /\ gen = GenIdle
  /\ hasher = HasherIdle

NextNew ==
  \/ \E ks \in SamplerPicks(height, Len(entities)) : NdmSmtNew(ks)
  \/ VerifyRootCommitment

SpecNew == InitNew /\ [][NextNew]_vars

\* C13: given more entities than 2^(height-1), new returns TooManyLeaves.
C13_TooManyEntitiesIsTooManyLeaves ==
  (outcome.op = "new" /\ Len(entities) > max_bottom_layer_nodes(height)) =>
    (outcome.result = "TooManyLeaves")

----------------------------------------------------------------------------
(* Properties of the store, of the thread counter and of coordinates *)

IsInputLeaf(n) ==
  n.coord.y = 0 /\ \E i \in 1..Len(input_leaf_nodes) : input_leaf_nodes[i].x_coord = n.coord.x

\* C15: after a build of height h with store depth d the store holds exactly the
\* root, every input leaf, and every node (padding included) the build produced
\* on a layer y >= h - d; d = 1 keeps the root and the input leaves only, d = h
\* keeps every node.
C15_StoreHoldsExactlyTheTopLayersAndLeaves ==
  (phase = "built") =>
    LET full == FullStore
    IN /\ map = {n \in full : n.coord.y >= height - store_depth \/ IsInputLeaf(n)}
       /\ root[1] \in map
       /\ (store_depth = 1) =>
            map = {root[1]} \cup {into_node(input_leaf_nodes[i]) : i \in 1..Len(input_leaf_nodes)}
       /\ (store_depth = height) => map = full

C15_Witness ==
  /\ phase = "built"
  /\ height = MaxHeight
  /\ store_depth = 2
  /\ \E n \in map : n.coord.y = height - 2 /\ n.content.liability = 0
  /\ \E n \in FullStore : n \notin map /\ n.coord.y = 1 /\ n.content.liability > 0
  /\ \E n \in FullStore : n \notin map /\ n.coord.y = 0

\* Threads that were spawned and not yet joined: running, or finished with their
\* node waiting in the join handle.
UnjoinedThreads == (DOMAIN stacks \ {MainThread}) \cup DOMAIN handles

\* Threads that hold a counted slot without a spawned thread behind it: past the
\* increment but before thread::spawn, or past join but before the decrement.
ThreadsHoldingSlot == {t \in DOMAIN stacks : Top(t).pc \in {"spawn", "release"}}

\* C16 as stated: at every moment of the build the counter equals 1 plus the
\* number of spawned threads not yet joined, and the threads running build_node
\* never outnumber max_thread_count.
C16_CounterIsOnePlusUnjoinedThreads ==
  (phase = "building") =>
    /\ thread_count = 1 + Cardinality(UnjoinedThreads)
    /\ Cardinality(DOMAIN stacks) <= max_thread_count

\* C16 amended: the counter never exceeds max_thread_count and equals 1 plus the
\* spawned threads not yet joined plus the threads that sit between the
\* increment and thread::spawn or between join and the decrement; so a thread
\* is spawned only after the counter was found below max_thread_count and
\* incremented, and the threads running build_node never outnumber
\* max_thread_count.
C16_CounterBoundsThreads ==
  (phase \in {"building", "built"}) =>
    /\ thread_count = 1 + Cardinality(UnjoinedThreads) + Cardinality(ThreadsHoldingSlot)
    /\ thread_count <= max_thread_count
    /\ Cardinality(DOMAIN stacks) <= max_thread_count
    /\ Cardinality(DOMAIN stacks \cup DOMAIN handles) <= thread_count

C16_Witness ==
  /\ phase = "building"
  /\ max_thread_count = 2
  /\ thread_count = max_thread_count
  /\ Cardinality(UnjoinedThreads) = 1
  /\ Cardinality(DOMAIN stacks) = max_thread_count
  /\ \E t \in DOMAIN stacks : Top(t).pc = "inline_right"

----------------------------------------------------------------------------
(* Properties of proof generation *)

\* The node of the tree on layer y above the leaf at x, in a build that stores
\* every node.
PathNodeOfTree(x, y) == get_node(FullStore, Ancestor(Coord(0, x), y))[1]

\* C17: with k = aggregation_factor.apply_to(height), generation puts exactly the
\* k lowest path nodes (leaf upward) into the aggregated range proof and makes one
\* individual range proof for each of the remaining height - k nodes, bottom-up
\* (each proof is over the node's liability and blinding factor);
\* the aggregated proof is absent exactly when k = 0 and the individual list
\* exactly when k = height.
C17_ProofsSplitAtAggregationIndex ==
  (phase = "proved") =>
    LET pr == proof[1]
        h == Len(pr.path_siblings) + 1
        k == IF pr.aggregation_factor.kind = "Percent"
             THEN (h * pr.aggregation_factor.value) \div 100
             ELSE h \div pr.aggregation_factor.value
        com(y) == LET c == PathNodeOfTree(pr.leaf_node.coord.x, y).content
                  IN PedersenCommit(ScalarFromU64(c.liability), c.blinding_factor)
    IN /\ h = height
       /\ (pr.aggregated_range_proof = <<>>) <=> (k = 0)
       /\ (pr.individual_range_proofs = <<>>) <=> (k = h)
       /\ (k > 0) =>
            LET coms == pr.aggregated_range_proof[1].coms
            IN /\ Len(coms) >= k
               /\ \A j \in 1..k : coms[j] = com(j - 1)
               /\ \A j \in (k + 1)..Len(coms) : coms[j] = PaddingCommitment
       /\ (k < h) =>
            /\ Len(pr.individual_range_proofs[1]) = h - k
            /\ \A j \in 1..(h - k) :
                 pr.individual_range_proofs[1][j].coms = <<com(k + j - 1)>>

C17_Witness ==
  /\ phase = "proved"
  /\ height = MaxProofHeight
  /\ proof[1].aggregation_factor = Divisor(2)
  /\ Len(proof[1].individual_range_proofs[1]) = 2
  /\ Len(proof[1].aggregated_range_proof[1].coms) = 2
  /\ Len(entities) = MaxEntities

----------------------------------------------------------------------------
(* Hasher on byte strings: two hashers fed with inputs of the caller's choice *)

MaxUpdates == 2

MaxInputLen == 3

\* The bytes an input may hold: the byte ';' itself and one other byte.
InputBytes == {DELIMITER, 1}

\* hasher.update(input) on one of the two hashers.
HasherUpdateCall(which, input) ==
  /\ phase = "hasher"
  /\ Len(hasher[which].inputs) < MaxUpdates
  /\ hasher' = [hasher EXCEPT ![which] =
                  [inputs |-> Append(@.inputs, input),
                   stream |-> HasherUpdate(@.stream, input)]]
  /\ UNCHANGED <<Inputs, phase, build_error, stacks, handles, thread_count, map, root,
                 siblings_out, entities, entity_mapping, proof, outcome, gen>>

InitHasher ==
  /\ height = MIN_HEIGHT
  /\ store_depth = MIN_STORE_DEPTH
  /\ max_thread_count = 1
  /\ input_leaf_nodes = <<>>
  /\ overflow_checks = TRUE
  /\ phase = "hasher"
  /\ build_error = "none"
  /\ stacks = NoThreads
  /\ handles = NoThreads
  /\ thread_count = 1
  /\ map = {}
  /\ root = <<>>
  /\ siblings_out = <<>>
  /\ InitFacade

NextHasher ==
  \E which \in {"a", "b"}, input \in SeqsUpTo(InputBytes, MaxInputLen) :
    HasherUpdateCall(which, input)

SpecHasher == InitHasher /\ [][NextHasher]_vars

\* C18: two different sequences of byte strings passed to update never feed the
\* same byte stream to the underlying hash function.
C18_DistinctInputSequencesFeedDistinctStreams ==
  (phase = "hasher" /\ hasher.a.inputs # hasher.b.inputs) =>
    (hasher.a.stream # hasher.b.stream)

----------------------------------------------------------------------------
(* Path reconstruction on sibling lists of the caller's choice *)

MaxSiblings == 3

MaxSiblingX == 3

\* A node as a sibling list may hold it: a leaf on the bottom layer, a padding
\* node above.
GivenNode(y, x) ==
  Node(Coord(y, x),
       IF y = 0 THEN InputLeafNode(x).content ELSE new_padding_node_content(Coord(y, x)))

ResultName(r) == IF r.panicked THEN "panic" ELSE IF r.error = "none" THEN "Ok" ELSE r.error

\* construct_path and construct_root_node on the same leaf and sibling list.
ConstructPathCall ==
  /\ phase = "path_input"
  /\ LET given == siblings_out[1]
         hidden == given.variant = "hidden"
         leaf == IF hidden THEN ConvertNode(into_node(input_leaf_nodes[1]))
                 ELSE into_node(input_leaf_nodes[1])
         sibs == IF hidden
                 THEN [j \in 1..Len(given.result.siblings) |->
                         ConvertNode(given.result.siblings[j])]
                 ELSE given.result.siblings
         path == construct_path(sibs, leaf, given.variant)
         top == construct_root_node(sibs, leaf, given.variant)
     IN outcome' = [op |-> "construct_path", result |-> ResultName(path), tamper |-> "none",
                    nodes |-> path.nodes, root_result |-> ResultName(top),
                    root_node |-> top.node, leaf |-> leaf, siblings |-> sibs]
  /\ phase' = "path_done"
  /\ UNCHANGED <<Inputs, build_error, stacks, handles, thread_count, map, root, siblings_out,
                 entities, entity_mapping, proof, gen, hasher>>

InitPath ==
  /\ height = MAX_HEIGHT
  /\ store_depth = MIN_STORE_DEPTH
  /\ max_thread_count = 1
  /\ \E x \in 0..MaxSiblingX, variant \in {"full", "hidden"} :
       /\ input_leaf_nodes = <<InputLeafNode(x)>>
       /\ siblings_out \in
            {<<[leaf |-> x, variant |-> variant,
                result |-> [panicked |-> FALSE, siblings |-> q]]>> :
               q \in SeqsUpTo({GivenNode(y, sx) : y \in 0..(MaxSiblings - 1),
                                                  sx \in 0..MaxSiblingX}, MaxSiblings)}
  /\ overflow_checks = TRUE
  /\ phase = "path_input"
  /\ build_error = "none"
  /\ stacks = NoThreads
  /\ handles = NoThreads
  /\ thread_count = 1
  /\ map = {}
  /\ root = <<>>
  /\ InitFacade

NextPath == ConstructPathCall

SpecPath == InitPath /\ [][NextPath]_vars

\* C19: path reconstruction returns TooFewSiblings exactly when the list has fewer
\* than 2 siblings; otherwise InvalidSibling exactly when at some step the given
\* sibling is not the sibling of the node accumulated so far (same layer, the
\* adjacent x on the other side: x + 1 for an even x, x - 1 for an odd x);
\* otherwise the merged nodes, bottom-up from the leaf, the last node of
\* construct_path being the result of construct_root_node.
C19_PathReconstructionErrors ==
  (outcome.op = "construct_path") =>
    LET sibs == outcome.siblings
        acc(j) == Ancestor(outcome.leaf.coord, j)
        StepOk(j) == /\ sibs[j].coord.y = acc(j - 1).y
                     /\ sibs[j].coord.x =
                          (IF acc(j - 1).x % 2 = 0 THEN acc(j - 1).x + 1 ELSE acc(j - 1).x - 1)
        AllOk == \A j \in 1..Len(sibs) : StepOk(j)
        Merged(j) == LET prev == outcome.nodes[j]
                         l == IF prev.coord.x % 2 = 0 THEN prev ELSE sibs[j]
                         r == IF prev.coord.x % 2 = 0 THEN sibs[j] ELSE prev
                     IN IF siblings_out[1].variant = "full"
                        THEN FullMerge(l.content, r.content)
                        ELSE HiddenMerge(l.content, r.content)
    IN /\ (outcome.result = "TooFewSiblings") <=> (Len(sibs) < 2)
       /\ (outcome.result = "InvalidSibling") <=> (Len(sibs) >= 2 /\ ~AllOk)
       /\ (outcome.result = "Ok") <=> (Len(sibs) >= 2 /\ AllOk)
       /\ outcome.root_result = outcome.result
       /\ (outcome.result = "Ok") =>
            /\ Len(outcome.nodes) = Len(sibs) + 1
            /\ outcome.nodes[1] = outcome.leaf
            /\ \A j \in 1..Len(sibs) :
                 /\ outcome.nodes[j + 1].coord = acc(j)
                 /\ outcome.nodes[j + 1].content = Merged(j)
            /\ outcome.root_node = <<outcome.nodes[Len(outcome.nodes)]>>

C19_Witness ==
  /\ outcome.op = "construct_path"
  /\ outcome.result = "Ok"
  /\ Len(outcome.siblings) = MaxSiblings
  /\ outcome.leaf.coord.x = MaxSiblingX
  /\ outcome.root_node = <<outcome.nodes[MaxSiblings + 1]>>

----------------------------------------------------------------------------
(* Properties of the coordinates of a built tree *)

\* Every node the built tree hands out: the stored ones, the root, and the
\* path siblings (stored or regenerated).
NodesOfBuiltTree ==
  map \cup {root[j] : j \in 1..Len(root)}
      \cup (IF siblings_out = <<>> THEN {}
            ELSE {siblings_out[1].result.siblings[j] :
                    j \in 1..Len(siblings_out[1].result.siblings)})

----------------------------------------------------------------------------
(* Partial aggregation on a tree of height 8 *)

ScenarioHeight == 8

InitScenario ==
  /\ height = ScenarioHeight
  /\ store_depth = MIN_STORE_DEPTH
  /\ max_thread_count = 1
  /\ input_leaf_nodes = <<>>
  /\ overflow_checks \in BOOLEAN
  /\ phase = "facade_input"
  /\ build_error = "none"
  /\ stacks = NoThreads
  /\ handles = NoThreads
  /\ thread_count = 1
  /\ map = {}
  /\ root = <<>>
  /\ siblings_out = <<>>
  /\ entities = <<[id |-> 1, liability |-> 1]>>
  /\ entity_mapping = <<>>
  /\ proof = <<>>
  /\ outcome = NoOutcome
  /\ gen = GenIdle
  /\ hasher = HasherIdle

NextScenario ==
  \/ \E ks \in SamplerPicks(height, Len(entities)) : NdmSmtNew(ks)
  \/ GenerateInclusionProof(1, Divisor(2))
  \/ Verify

SpecScenario == InitScenario /\ [][NextScenario]_vars

\* The commitments the aggregated proof of the proof in hand was made over are
\* those of the lowest `count` nodes of the tree path, followed by padding only.
AggregatedOverLowest(count) ==
  /\ proof[1].aggregated_range_proof # <<>>
  /\ LET coms == proof[1].aggregated_range_proof[1].coms
     IN /\ Len(coms) >= count
        /\ \A j \in 1..count :
             coms[j] = PathNodeOfTree(proof[1].leaf_node.coord.x, j - 1).content.commitment
        /\ \A j \in (count + 1)..Len(coms) : coms[j] = PaddingCommitment

IndividualProofCount ==
  IF proof[1].individual_range_proofs = <<>> THEN 0
  ELSE Len(proof[1].individual_range_proofs[1])

\* C21 as stated: for height 8 and Divisor(2) the generated proof has 4 path
\* nodes in the aggregated range proof and 3 individual range proofs, and it
\* verifies.
C21_FourAggregatedThreeIndividual ==
  /\ (outcome.op = "generate") => (outcome.result = "Ok")
  /\ (phase \in {"proved", "verified"}) =>
       (AggregatedOverLowest(4) /\ IndividualProofCount = 3)
  /\ (phase = "verified") => (outcome.result = "Ok")

\* C21 amended: for height 8 and Divisor(2) the generated proof has 4 path nodes
\* in the aggregated range proof and 4 individual range proofs (one for each of
\* the other 8 - 4 path nodes), and it verifies.
C21_FourAggregatedFourIndividual ==
  /\ (outcome.op = "generate") => (outcome.result = "Ok")
  /\ (phase \in {"proved", "verified"}) =>
       /\ Len(proof[1].path_siblings) = 7
       /\ AggregatedOverLowest(4)
       /\ IndividualProofCount = 4
       /\ \A j \in 1..4 :
            proof[1].individual_range_proofs[1][j].coms =
              <<PathNodeOfTree(proof[1].leaf_node.coord.x, 3 + j).content.commitment>>
  /\ (phase = "verified") => (outcome.result = "Ok")

C21_Witness ==
  /\ phase = "verified"
  /\ height = 8
  /\ outcome.result = "Ok"
  /\ proof[1].aggregation_factor = Divisor(2)
  /\ IndividualProofCount = 4
  /\ proof[1].leaf_node.coord.x = max_bottom_layer_nodes(height) - 1

----------------------------------------------------------------------------
(* The build-tree command's --root-serialize step *)

SERIALIZED_ROOT_PUB_FILE_PREFIX == "public_root_data_"
SERIALIZED_ROOT_PVT_FILE_PREFIX == "secret_root_data_"

\* What the DIR argument may name on disk.
RootSerializePaths == {"existing_dir", "new_dir", "json_file", "other_file"}

\* read_write_utils::parse_serialization_path as documented at its callers: a
\* directory (created when missing) gets the default file name with the prefix
\* appended, a file must have the expected extension and is returned as given.
parse_serialization_path(path, prefix) ==
  IF path \in {"existing_dir", "new_dir"} THEN [error |-> "none", file |-> prefix]
  ELSE IF path = "json_file" THEN [error |-> "none", file |-> path]
  ELSE [error |-> "UnsupportedFileExtension", file |-> ""]

\* The last step of Command::BuildTree with root_serialize = Some(path). A path
\* for which is_dir() holds panics; otherwise the public and then the secret
\* root data are written, and log_on_err_unwrap panics on the first error.
RootSerialize(path) ==
  /\ phase = "tree"
  /\ LET pub == parse_serialization_path(path, SERIALIZED_ROOT_PUB_FILE_PREFIX)
         pvt == parse_serialization_path(path, SERIALIZED_ROOT_PVT_FILE_PREFIX)
         is_dir == path = "existing_dir"
         files == IF is_dir \/ pub.error # "none" THEN {}
                  ELSE IF pvt.error # "none" THEN {pub.file}
                  ELSE {pub.file, pvt.file}
         panics == is_dir \/ pub.error # "none" \/ pvt.error # "none"
     IN outcome' = [op |-> "root_serialize", tamper |-> "none", path |-> path,
                    result |-> IF panics THEN "panicked" ELSE "Ok", files |-> files]
  /\ phase' = "cli_done"
  /\ UNCHANGED <<Inputs, build_error, stacks, handles, thread_count, map, root, siblings_out,
                 entities, entity_mapping, proof, gen, hasher>>

NextCli ==
  \/ \E ks \in SamplerPicks(height, Len(entities)) : NdmSmtNew(ks)
  \/ \E path \in RootSerializePaths : RootSerialize(path)

SpecCli == InitNew /\ [][NextCli]_vars

\* C22: build-tree with --root-serialize DIR, DIR an existing directory, writes
\* the public and the secret root data to two separate files and does not panic.
C22_RootSerializeToExistingDirWritesBothFiles ==
  (outcome.op = "root_serialize" /\ outcome.path = "existing_dir") =>
    /\ outcome.result = "Ok"
    /\ outcome.files = {SERIALIZED_ROOT_PUB_FILE_PREFIX, SERIALIZED_ROOT_PVT_FILE_PREFIX}

----------------------------------------------------------------------------
(* Properties of the recursion of build_node *)

\* C23: a build that got past the builder's validation never enters build_node
\* with arguments that fail one of its assertions: x_coord_min is even,
\* x_coord_max is odd, the width of the x-range is a power of two, and the leaves
\* number at least 1 and at most 2^y.
C23_BuildNodeAssertionsNeverFail ==
  (phase = "building") =>
    \A t \in DOMAIN stacks :
      (Top(t).pc = "enter") => BuildNodeAssertsHold(Top(t).p, Top(t).leaves)

\* The nodes that the next step of thread t puts into the store.
PendingInserts(t) ==
  LET f == Top(t)
  IN IF f.pc = "enter" /\ f.p.y_coord = 1 /\ BuildNodeAssertsHold(f.p, f.leaves)
       THEN BaseCaseInserts(f.leaves, height, store_depth)
     ELSE IF /\ f.pc = "finish"
             /\ MatchedPairIsValid(f.left[1], f.right[1])
             /\ within_store_depth_for_children(f.p, height, store_depth)
       THEN {f.left[1], f.right[1]}
     ELSE {}

\* The root, while build_tree has it in hand and has not stored it yet.
PendingRootInsert ==
  IF phase = "building" /\ root # <<>> /\ DOMAIN stacks = {} THEN {root[1]} ELSE {}

\* C24: under every interleaving each coordinate is inserted into the shared
\* store at most once (whatever a thread is about to insert goes to a vacant
\* coordinate, and no two nodes of one insert share a coordinate), and the store
\* returns under a node's coordinate that node.
C24_EachCoordinateInsertedOnce ==
  (phase = "building") =>
    /\ \A t \in DOMAIN stacks :
         /\ \A n \in PendingInserts(t) : get_node(map, n.coord) = <<>>
         /\ \A n, m \in PendingInserts(t) : (n.coord = m.coord) => (n = m)
    /\ \A n \in PendingRootInsert : get_node(map, n.coord) = <<>>
    /\ \A n, m \in map : (n.coord = m.coord) => (n = m)
    /\ \A n \in map : get_node(map, n.coord) = <<n>>

\* Two threads are at work and the store already holds nodes of both subtrees
\* while one of them is about to insert more.
C24_Witness ==
  /\ phase = "building"
  /\ Cardinality(DOMAIN stacks) = 2
  /\ \E t \in DOMAIN stacks \ {MainThread} :
       /\ PendingInserts(t) # {}
       /\ \E n \in map : n.coord.x < Top(t).p.x_coord_min
       /\ \E n \in map : n.coord.x >= Top(t).p.x_coord_min

----------------------------------------------------------------------------
(* The store depth a build starts with *)

\* What with_store_depth was given, if it was called: any u8, here up to one more
\* than the height.
GivenStoreDepths(h) == {<<>>} \cup {<<d>> : d \in 0..(h + 1)}

InitStoreDepth ==
  /\ height \in MIN_HEIGHT..MaxHeight
  /\ store_depth \in {BuilderStoreDepth(given, height) : given \in GivenStoreDepths(height)}
  /\ max_thread_count \in 1..MaxThreads
  /\ input_leaf_nodes \in
       {[j \in 1..Len(xs) |-> InputLeafNode(xs[j])] :
          xs \in SeqsUpTo(0..(max_bottom_layer_nodes(height) - 1), MaxLeaves)}
  /\ overflow_checks \in BOOLEAN
  /\ InitBuild
  /\ InitFacade

SpecStoreDepth == InitStoreDepth /\ [][Next]_vars

\* C25: a build that starts has 1 <= store_depth <= height, whether the store
\* depth was defaulted or given to with_store_depth, so that the subtraction
\* height - store_depth does not underflow.
C25_StoreDepthWithinOneAndHeight ==
  (phase \in {"building", "built", "panicked"}) =>
    /\ MIN_STORE_DEPTH <= store_depth
    /\ store_depth <= height
    /\ ~StoreDepthUnderflows(height, store_depth)

----------------------------------------------------------------------------
(* Path siblings for a leaf node the caller hands in *)

\* PathSiblings::build_using_{multi,single}_threaded_algorithm with a leaf node
\* at (0, x) handed in by the caller, stored in the tree or not: the leaf is used
\* for its coordinate only, and the function has no path that returns Err.
PathSiblingsBuildGiven(x, variant) ==
  /\ phase = "built"
  /\ LET r == PathSiblingsBuild(map, height, Coord(0, x), variant)
     IN siblings_out' = <<[leaf |-> x, variant |-> variant, result |-> r,
                           returned |-> IF r.panicked THEN "panicked" ELSE "Ok"]>>
  /\ UNCHANGED <<Inputs, phase, build_error, stacks, handles, thread_count, map, root, Facade>>

NextSiblings ==
  \/ BuildTreeStart
  \/ \E t \in DOMAIN stacks : BuildNodeEnter(t)
  \/ \E t \in DOMAIN stacks : LockThreadCount(t)
  \/ \E t \in DOMAIN stacks : SpawnRightThread(t)
  \/ \E t \in DOMAIN stacks : JoinRightThread(t)
  \/ \E t \in DOMAIN stacks : ReleaseThreadCount(t)
  \/ \E t \in DOMAIN stacks : BuildRightInline(t)
  \/ \E t \in DOMAIN stacks : BuildLeftInline(t)
  \/ \E t \in DOMAIN stacks : FinishNode(t)
  \/ BuildTreeFinish
  \/ \E x \in 0..(max_bottom_layer_nodes(height) - 1), variant \in {"multi", "single"} :
       PathSiblingsBuildGiven(x, variant)

SpecSiblings == Init /\ [][NextSiblings]_vars

\* C26: building the path siblings for a leaf node that is not in the tree's
\* store at its x-coordinate returns an error.
C26_AbsentLeafIsAnError ==
  \A i \in 1..Len(siblings_out) :
    (get_leaf_node(map, siblings_out[i].leaf) = <<>>) =>
      (siblings_out[i].returned \notin {"Ok", "panicked"})

----------------------------------------------------------------------------
(* The end of the top-level build_node call *)

\* C27: when the top-level build_node call has returned, every spawned thread has
\* been joined, the thread counter is back at 1 and build_tree holds the only
\* reference to the store; no build ends in StoreOwnershipFailure.
C27_AllJoinedWhenTopLevelReturns ==
  /\ (phase = "building" /\ root # <<>>) =>
       /\ DOMAIN stacks = {}
       /\ DOMAIN handles = {}
       /\ thread_count = 1
       /\ StoreReferences = 1
  /\ build_error # "StoreOwnershipFailure"

\* The top-level call has returned from a build whose root call had leaves on both
\* sides and a thread to spare, so that it spawned a thread.
C27_Witness ==
  /\ phase = "building"
  /\ root # <<>>
  /\ height = MaxHeight
  /\ max_thread_count = MaxThreads
  /\ Len(input_leaf_nodes) = MaxLeaves
  /\ input_leaf_nodes[1].x_coord = 0
  /\ input_leaf_nodes[2].x_coord = max_bottom_layer_nodes(height) \div 2
  /\ input_leaf_nodes[MaxLeaves].x_coord = max_bottom_layer_nodes(height) - 1

----------------------------------------------------------------------------
(* verify on proofs with any number of siblings *)

\* Sibling list lengths of a proof as it may be read from a file.
SiblingCounts == {0, 1, MIN_HEIGHT, MAX_HEIGHT - 1, MAX_HEIGHT}

\* The sibling list cut to its first n nodes, or filled up to n with its last node.
ResizedSiblings(siblings, n) ==
  [j \in 1..n |-> IF j <= Len(siblings) THEN siblings[j] ELSE siblings[Len(siblings)]]

\* A proof arrives with n siblings instead of the ones it was generated with.
ResizeSiblings(n) ==
  /\ phase = "proved"
  /\ proof' = <<[proof[1] EXCEPT !.path_siblings = ResizedSiblings(@, n)]>>
  /\ outcome' = [op |-> "tamper", result |-> "none", tamper |-> "sibling_count"]
  /\ phase' = "tampered"
  /\ UNCHANGED <<Inputs, build_error, stacks, handles, thread_count, map, root, siblings_out,
                 entities, entity_mapping, gen, hasher>>

NextVerify ==
  \/ \E ks \in SamplerPicks(height, Len(entities)) : NdmSmtNew(ks)
  \/ \E e \in 1..MaxEntities, factor \in AggregationFactors : GenerateInclusionProof(e, factor)
  \/ \E n \in SiblingCounts : ResizeSiblings(n)
  \/ Verify

SpecVerify == InitProof /\ [][NextVerify]_vars

\* C28: verify returns a Result and does not panic, whatever the inclusion proof,
\* sibling lists of 0, 1 or more than 63 nodes included.
C28_VerifyNeverPanics ==
  (outcome.op = "verify") => (outcome.result # "panic")

----------------------------------------------------------------------------
(* What a successful verification says about the leaf *)

\* C29: if verify returns Ok for a proof then the commitment of its leaf opens to
\* the leaf's liability and blinding factor:
\* commitment = g1^liability * g2^blinding_factor.
C29_VerifiedLeafCommitmentOpens ==
  (outcome.op = "verify" /\ outcome.result = "Ok") =>
    (proof[1].leaf_node.content.commitment =
       PedersenCommit(ScalarFromU64(proof[1].leaf_node.content.liability),
                      proof[1].leaf_node.content.blinding_factor))

----------------------------------------------------------------------------
(* Termination of the multi-threaded build *)

\* A step of the build itself: of build_tree or of one of the threads.
BuildStep ==
  \/ BuildTreeStart
  \/ \E t \in DOMAIN stacks : BuildNodeEnter(t)
  \/ \E t \in DOMAIN stacks : LockThreadCount(t)
  \/ \E t \in DOMAIN stacks : SpawnRightThread(t)
  \/ \E t \in DOMAIN stacks : JoinRightThread(t)
  \/ \E t \in DOMAIN stacks : ReleaseThreadCount(t)
  \/ \E t \in DOMAIN stacks : BuildRightInline(t)
  \/ \E t \in DOMAIN stacks : BuildLeftInline(t)
  \/ \E t \in DOMAIN stacks : FinishNode(t)
  \/ BuildTreeFinish

\* The operating system keeps running some thread that can take a step: a thread
\* holds the counter's mutex for the critical section only, and an insert into
\* the store returns.
SpecLive == Init /\ [][BuildStep]_vars /\ WF_vars(BuildStep)

\* build_node calls nested below the top-level one never go below layer 1, which
\* is height - 1 levels.
RecursionWithinHeight ==
  \A t \in DOMAIN stacks :
    /\ Len(stacks[t]) <= height - 1
    /\ \A i \in 1..Len(stacks[t]) :
         /\ stacks[t][i].p.y_coord >= 1
         /\ height - stacks[t][i].p.y_coord <= height - 1

\* C30: for every input that passes validation, every max_thread_count and every
\* interleaving the build terminates (with the tree, or with a panic), and the
\* recursion is at most height - 1 levels deep.
C30_BuildTerminates ==
  /\ [](RecursionWithinHeight)
  /\ (phase = "building") ~> (phase \in {"built", "panicked"})

\* A build ended with a tree after a thread waited at its join while the thread
\* it spawned had spawned one itself.
C30_Witness ==
  /\ phase = "built"
  /\ height = MaxHeight
  /\ max_thread_count = MaxThreads
  /\ Len(input_leaf_nodes) = MaxLeaves
  /\ input_leaf_nodes[1].x_coord = 0
  /\ input_leaf_nodes[2].x_coord = max_bottom_layer_nodes(height) \div 2
  /\ input_leaf_nodes[MaxLeaves].x_coord = max_bottom_layer_nodes(height) - 1

====
